---- MODULE Spec2Model ----
(***************************************************************************)
(* Topology compiler of precice-forschungsprojekt/controller.              *)
(*                                                                         *)
(* One compilation is modelled as the pipeline the code runs:              *)
(*   PreciceConfigGenerator.__init__  : load, _convert_enums, lifting into *)
(*       TopologyConfig (pydantic), _validate_topology_configuration,      *)
(*       output directory                                                  *)
(*   PreciceConfigGenerator.generate_precice_config : the emitter          *)
(*   PreciceXMLToTopologyConverter    : the reader, run on the emitted     *)
(*       document                                                          *)
(* A Python dict is a TLA+ record whose DOMAIN is the set of keys present, *)
(* so "key in dict" is "key \in DOMAIN dict".  Raw scalars of enumerable   *)
(* fields are tagged: [int |-> 1] is the YAML integer 1, [str |-> "x"] the *)
(* YAML string x, [enum |-> "DataType.VECTOR"] an Enum member.  Time       *)
(* values are integers standing for the floats of the document.            *)
(***************************************************************************)
EXTENDS Integers, Sequences, FiniteSets, TLC

VARIABLES
    topology_file,   \* content of the topology YAML file (never written)
    raw_data,        \* the dict object yaml.safe_load returned, which is the
                     \* argument handed to _convert_enums
    topology_data,   \* what the name topology_data is bound to after line 96
    validation_report, \* the report of TopologyValidator.validate_topology
    topology,        \* self.topology, the lifted TopologyConfig
    errors,          \* what the raised ValueError reports, one entry per error
    pc,              \* position of the compilation
    output_dir,      \* state of the output directory
    xml_file,        \* content of precice-config.xml (sequence of lines)
    prev_xml,        \* content precice-config.xml had before the last emission
    emissions,       \* number of calls of generate_precice_config so far
    namespace_map,   \* ElementTree's process-wide _namespace_map
    read_result,     \* outcome of PreciceXMLToTopologyConverter on xml_file
    generator_config, \* the TopologyGeneratorConfig of the generator
    existing_dir,    \* where a directory that was at the output path before
                     \* the run is now: "none", "in_place" or "backup"
    file_state,      \* "ok", or why the topology file cannot be loaded
    scripts,         \* the files generate() wrote next to precice-config.xml
    cli_report,      \* what the validation-only mode of the CLI printed
    workers,         \* the compilations of a concurrent run
    disk,            \* the output directories of a concurrent run
    resolved,        \* what a call of resolve_path returned or raised
    path_call,       \* the arguments of that call
    files            \* the directories, files and links resolve_path sees

vars == <<topology_file, raw_data, topology_data, validation_report, topology,
          errors, pc, output_dir, xml_file, prev_xml, emissions, namespace_map,
          read_result, generator_config, existing_dir, file_state, scripts,
          cli_report, workers, disk, resolved,
                   path_call, files>>

(***************************************************************************)
(* Bounds of the model                                                     *)
(***************************************************************************)
MaxData == 2
MaxMeshes == 2
MaxParticipants == 2
MaxCouplingParticipants == 3
MaxExchanges == 1
MaxTime == 2
MaxEmissions == 2
MaxSegments == 2

DataNames == {"T", "P"}
MeshNames == {"M", "N"}
ParticipantNames == {"A", "B"}
\* names a coupling section or an exchange may mention; "C" is never declared
CouplingNames == ParticipantNames \cup {"C"}

I(n) == [int |-> n]
S(s) == [str |-> s]
E(m) == [enum |-> m]

None == [none |-> TRUE]

SeqsUpTo(X, n) == UNION {[1..k -> X] : k \in 0..n}

Range(s) == {s[i] : i \in DOMAIN s}

HasKey(d, k) == k \in DOMAIN d

\* dict.get(key, default)
Get(d, k, default) == IF k \in DOMAIN d THEN d[k] ELSE default

(***************************************************************************)
(* Topology documents the compilations are run on.  A document is the      *)
(* reference topology (two participants, one exchanged field) with the     *)
(* sections named in one element of VariedSections replaced by any value   *)
(* of that section's bounded set; the other sections keep the reference    *)
(* value.                                                                  *)
(***************************************************************************)
RawDataEntries ==
    {[name |-> n] : n \in DataNames}
        \cup {[name |-> n, type |-> S("scalar")] : n \in DataNames}

RawMeshEntries ==
    {[name |-> n, dimensions |-> 3, data |-> d] :
        n \in MeshNames, d \in SeqsUpTo(DataNames, 1)}

\* a participant that writes T on the mesh it provides, one that receives
\* mesh M and reads T on the mesh it provides, and one that receives mesh M
\* and reads T without a mesh of its own
RawParticipantEntries ==
    {[name |-> n, provides_mesh |-> m, write_data |-> <<"T">>] :
        n \in ParticipantNames, m \in MeshNames}
        \cup {[name |-> n, provides_mesh |-> m, receives_meshes |-> <<"M">>,
               read_data |-> <<"T">>] :
                n \in ParticipantNames, m \in MeshNames}
        \cup {[name |-> n, receives_meshes |-> <<"M">>,
               read_data |-> <<"T">>] : n \in ParticipantNames}

RawExchangeEntries ==
    {[data |-> d, mesh |-> m, from |-> ft[1], to |-> ft[2]] :
        d \in DataNames, m \in MeshNames,
        ft \in {<<"A", "B">>, <<"B", "A">>, <<"C", "B">>, <<"A", "C">>}}

TimeValues == (-1)..MaxTime

DataLists == SeqsUpTo(RawDataEntries, MaxData)
MeshLists == SeqsUpTo(RawMeshEntries, MaxMeshes)
ParticipantLists == SeqsUpTo(RawParticipantEntries, MaxParticipants)
\* each option is the part of the coupling dict it contributes
CouplingParticipantOptions ==
    {<<>>} \cup {[participants |-> l] :
                    l \in SeqsUpTo(CouplingNames, MaxCouplingParticipants)}
CouplingTimeOptions ==
    {<<>>} \cup {[time_window_size |-> a] : a \in TimeValues}
           \cup {[max_time |-> b] : b \in TimeValues}
           \cup {[time_window_size |-> a, max_time |-> b] :
                    a \in TimeValues, b \in TimeValues}
CouplingExchangeOptions ==
    {<<>>} \cup {[exchanges |-> l] :
                    l \in SeqsUpTo(RawExchangeEntries, MaxExchanges)}
CouplingTypeOptions ==
    {<<>>} \cup {[type |-> I(c)] : c \in {0, 1, 2, 3, 7}}
           \cup {[type |-> S("serial-implicit")]}
\* each option is the type key of the first data declaration
DataTypeOptions ==
    {<<>>} \cup {[type |-> S(s)] : s \in {"scalar", "vector", "tensor", "matrix"}}
           \cup {[type |-> I(1)]}
\* each option is the mapping_type key of the first participant
MappingTypeOptions ==
    {<<>>} \cup {[mapping_type |-> I(c)] : c \in {-1, 0, 1, 2, 3, 7}}
           \cup {[mapping_type |-> S("nearest-projection")]}

BaseData == <<[name |-> "T"]>>
BaseMeshes == <<[name |-> "M", dimensions |-> 3, data |-> <<"T">>],
                [name |-> "N", dimensions |-> 3, data |-> <<"T">>]>>
BaseParticipants ==
    <<[name |-> "A", provides_mesh |-> "M", write_data |-> <<"T">>],
      [name |-> "B", provides_mesh |-> "N", receives_meshes |-> <<"M">>,
       read_data |-> <<"T">>]>>
BaseCouplingParticipants == [participants |-> <<"A", "B">>]
BaseCouplingTimes == [time_window_size |-> 1, max_time |-> 2]
BaseCouplingExchanges ==
    [exchanges |-> <<[data |-> "T", mesh |-> "M", from |-> "A", to |-> "B"]>>]
BaseCouplingType == <<>>
\* the reference topology spells the type of its data declaration out
BaseDataType == [type |-> S("vector")]
BaseMappingType == <<>>

\* the surroundings of a run: whether the output directory exists already,
\* the two file generation options, and whether the topology file loads
EnvironmentOptions ==
    {[existing |-> x, overwrite_existing |-> o, backup_existing |-> b,
      file |-> "ok"] : x \in BOOLEAN, o \in BOOLEAN, b \in BOOLEAN}
        \cup {[existing |-> FALSE, overwrite_existing |-> FALSE,
                backup_existing |-> TRUE, file |-> f] :
                f \in {"missing", "unparseable"}}
\* no directory yet, the defaults of TopologyGeneratorConfig, a loadable file
BaseEnvironment ==
    [existing |-> FALSE, overwrite_existing |-> FALSE,
     backup_existing |-> TRUE, file |-> "ok"]

Sections == {"data", "meshes", "participants", "coupling.participants",
             "coupling.times", "coupling.exchanges", "coupling.type",
             "data.type", "participants.mapping_type", "environment"}

\* the sets of sections one document varies: any two sections
VariedSections == {{a, b} : a \in Sections, b \in Sections}

Options(section, varied, all, base) ==
    IF section \in varied THEN all ELSE {base}

\* the list with the keys of the option set on its first entry
WithKeys(list, option) ==
    IF Len(list) = 0 THEN list ELSE [list EXCEPT ![1] = option @@ @]

Document(d, m, p, cp, ct, cx, cty, dty, mty) ==
    [name |-> "sim", data |-> WithKeys(d, dty), meshes |-> m,
     participants |-> WithKeys(p, mty),
     coupling |-> cp @@ ct @@ cx @@ cty]

(***************************************************************************)
(* Enum/compatibility normalizer: PreciceConfigGenerator._convert_enums    *)
(***************************************************************************)
\* the table with the codes 1 and 2 exchanged
mapping_type_map_swapped ==
    (0 :> E("MappingType.RBF") @@ 2 :> E("MappingType.NEAREST_PROJECTION")
        @@ 1 :> E("MappingType.CONSISTENT") @@ 3 :> E("MappingType.CONSERVATIVE"))

mapping_type_map ==
    (0 :> E("MappingType.RBF") @@ 1 :> E("MappingType.NEAREST_PROJECTION")
        @@ 2 :> E("MappingType.CONSISTENT") @@ 3 :> E("MappingType.CONSERVATIVE"))

coupling_type_map ==
    (0 :> E("CouplingSchemeType.SERIAL_EXPLICIT")
        @@ 1 :> E("CouplingSchemeType.SERIAL_IMPLICIT")
        @@ 2 :> E("CouplingSchemeType.PARALLEL_EXPLICIT")
        @@ 3 :> E("CouplingSchemeType.PARALLEL_IMPLICIT"))

data_type_map ==
    [scalar |-> E("DataType.SCALAR"), vector |-> E("DataType.VECTOR"),
     tensor |-> E("DataType.TENSOR")]

\* table.get(value, default) for a table keyed by integers / by strings
GetByInt(table, v, default) ==
    IF HasKey(v, "int") /\ v.int \in DOMAIN table THEN table[v.int] ELSE default

GetByStr(table, v, default) ==
    IF HasKey(v, "str") /\ v.str \in DOMAIN table THEN table[v.str] ELSE default

convert_enums(td) ==
    LET t1 == IF HasKey(td, "participants")
              THEN [td EXCEPT !.participants =
                      [i \in DOMAIN @ |->
                          IF HasKey(@[i], "mapping_type")
                          THEN [@[i] EXCEPT !.mapping_type =
                                  GetByInt(mapping_type_map, @,
                                           E("MappingType.RBF"))]
                          ELSE @[i]]]
              ELSE td
        t2 == IF HasKey(t1, "coupling") /\ HasKey(t1.coupling, "type")
              THEN [t1 EXCEPT !.coupling.type =
                      GetByInt(coupling_type_map, @,
                               E("CouplingSchemeType.SERIAL_EXPLICIT"))]
              ELSE t1
        t3 == IF HasKey(t2, "data")
              THEN [t2 EXCEPT !.data =
                      [i \in DOMAIN @ |->
                          IF HasKey(@[i], "type")
                          THEN [@[i] EXCEPT !.type =
                                  GetByStr(data_type_map, @,
                                           E("DataType.VECTOR"))]
                          ELSE @[i]]]
              ELSE t2
    IN t3

(***************************************************************************)
(* Lifting into the canonical model: the TopologyConfig constructor.       *)
(* pydantic validates every field, collects the errors of all of them and  *)
(* raises one ValidationError; a validator of a field runs only when the   *)
(* field is given and its items are valid, a default is taken as it is.    *)
(***************************************************************************)
RECURSIVE Flatten(_)
Flatten(ss) == IF Len(ss) = 0 THEN <<>> ELSE Head(ss) \o Flatten(Tail(ss))

\* list.count-free form of len(set(names)) != len(names)
HasDuplicates(names) == Cardinality(Range(names)) # Len(names)

Names(list) == [i \in DOMAIN list |-> list[i].name]

Err(kind, loc, index, ids) ==
    [kind |-> kind, loc |-> loc, index |-> index, ids |-> ids]

\* DataConfig
DataConfigErrors(d, i) ==
    IF HasKey(d, "name") THEN <<>>
    ELSE <<Err("missing", "data.name", i, <<>>)>>

\* DataConfig with SCALAR as the default of type
DataConfig_scalar_default(d) ==
    [name |-> d.name,
     type |-> Get(d, "type", E("DataType.SCALAR")).enum]

DataConfig(d) ==
    [name |-> d.name,
     type |-> Get(d, "type", E("DataType.VECTOR")).enum]

\* MeshConfig
MeshConfigErrors(m, i) ==
    (IF HasKey(m, "name") THEN <<>>
     ELSE <<Err("missing", "meshes.name", i, <<>>)>>)
    \o (IF HasKey(m, "dimensions") /\ m.dimensions < 1
        THEN <<Err("greater_than_equal", "meshes.dimensions", i, <<>>)>>
        ELSE <<>>)
    \o (IF HasKey(m, "dimensions") /\ m.dimensions > 3
        THEN <<Err("less_than_equal", "meshes.dimensions", i, <<>>)>>
        ELSE <<>>)
    \o (IF HasKey(m, "data") /\ HasDuplicates(m.data)
        THEN <<Err("Data names must be unique within a mesh",
                   "meshes.data", i, <<>>)>>
        ELSE <<>>)

MeshConfig(m) ==
    [name |-> m.name,
     dimensions |-> Get(m, "dimensions", 2),
     data |-> Get(m, "data", <<>>)]

\* ParticipantConfig
ParticipantConfigErrors(p, i) ==
    LET provides_ok == HasKey(p, "provides_mesh") /\ p.provides_mesh # ""
        DataErr(key) ==
            IF HasKey(p, key) /\ provides_ok /\ Len(p[key]) = 0
            THEN <<Err("Participant must have at least one read or write data",
                       "participants." \o key, i, <<p.provides_mesh>>)>>
            ELSE <<>>
    IN (IF HasKey(p, "name") THEN <<>>
        ELSE <<Err("missing", "participants.name", i, <<>>)>>)
       \o (IF ~HasKey(p, "provides_mesh")
           THEN <<Err("missing", "participants.provides_mesh", i, <<>>)>>
           ELSE IF p.provides_mesh = ""
           THEN <<Err("Participant must provide a mesh",
                      "participants.provides_mesh", i, <<>>)>>
           ELSE <<>>)
       \o DataErr("read_data")
       \o DataErr("write_data")

ParticipantConfig(p) ==
    [name |-> p.name,
     provides_mesh |-> p.provides_mesh,
     receives_meshes |-> Get(p, "receives_meshes", <<>>),
     read_data |-> Get(p, "read_data", <<>>),
     write_data |-> Get(p, "write_data", <<>>),
     mapping_type |-> Get(p, "mapping_type", E("MappingType.RBF")).enum,
     mapping_constraint |-> Get(p, "mapping_constraint", "consistent")]

\* CouplingConfig with the gt=0 bounds of the two time fields left out
CouplingConfigErrors_unbounded(c) ==
    IF HasKey(c, "participants") /\ Len(c.participants) < 2
    THEN <<Err("Coupling requires at least two participants",
               "coupling.participants", 0, <<>>)>>
    ELSE <<>>

\* CouplingConfig
CouplingConfigErrors(c) ==
    (IF HasKey(c, "time_window_size") /\ ~(c.time_window_size > 0)
     THEN <<Err("greater_than", "coupling.time_window_size", 0, <<>>)>>
     ELSE <<>>)
    \o (IF HasKey(c, "max_time") /\ ~(c.max_time > 0)
        THEN <<Err("greater_than", "coupling.max_time", 0, <<>>)>>
        ELSE <<>>)
    \o (IF HasKey(c, "participants") /\ Len(c.participants) < 2
        THEN <<Err("Coupling requires at least two participants",
                   "coupling.participants", 0, <<>>)>>
        ELSE <<>>)

\* the defaults 0.025 and 2.5 on the integer scale the time values use
DefaultTimeWindowSize == 1
DefaultMaxTime == 2

CouplingConfig(c) ==
    [type |-> Get(c, "type", E("CouplingSchemeType.SERIAL_EXPLICIT")).enum,
     time_window_size |-> Get(c, "time_window_size", DefaultTimeWindowSize),
     max_time |-> Get(c, "max_time", DefaultMaxTime),
     participants |-> Get(c, "participants", <<>>),
     exchanges |-> Get(c, "exchanges", <<>>)]

\* TopologyConfig: the errors in field order data, meshes, participants,
\* coupling; a list's own validator runs only when no item failed
TopologyConfigErrors(td) ==
    LET ds == Get(td, "data", <<>>)
        ms == Get(td, "meshes", <<>>)
        ps == Get(td, "participants", <<>>)
        derr == Flatten([i \in DOMAIN ds |-> DataConfigErrors(ds[i], i)])
        merr == Flatten([i \in DOMAIN ms |-> MeshConfigErrors(ms[i], i)])
        perr == Flatten([i \in DOMAIN ps |-> ParticipantConfigErrors(ps[i], i)])
    IN derr
       \o (IF Len(merr) > 0 THEN merr
           ELSE IF HasKey(td, "meshes") /\ HasDuplicates(Names(ms))
           THEN <<Err("Mesh names must be unique", "meshes", 0, <<>>)>>
           ELSE <<>>)
       \o (IF Len(perr) > 0 THEN perr
           ELSE IF HasKey(td, "participants") /\ HasDuplicates(Names(ps))
           THEN <<Err("Participant names must be unique", "participants",
                      0, <<>>)>>
           ELSE <<>>)
       \o (IF HasKey(td, "coupling") THEN CouplingConfigErrors(td.coupling)
           ELSE <<>>)

TopologyConfig(td) ==
    LET ds == Get(td, "data", <<>>)
        ms == Get(td, "meshes", <<>>)
        ps == Get(td, "participants", <<>>)
    IN [name |-> Get(td, "name", "precice-simulation"),
        data |-> [i \in DOMAIN ds |-> DataConfig(ds[i])],
        meshes |-> [i \in DOMAIN ms |-> MeshConfig(ms[i])],
        participants |-> [i \in DOMAIN ps |-> ParticipantConfig(ps[i])],
        coupling |-> CouplingConfig(Get(td, "coupling", <<>>))]

(***************************************************************************)
(* Semantic validator:                                                     *)
(* PreciceConfigGenerator._validate_topology_configuration.  Every check   *)
(* raises ValueError, so the checks after the first failing one never run. *)
(***************************************************************************)
SemErr(kind, ids) == Err(kind, "", 0, ids)

\* the failures in the order the code would meet them
validation_failures(t) ==
    LET ps == t.participants
        all_mesh_names == Range(Names(t.meshes))
        all_data_names == Range(Names(t.data))
        config_participant_names == Range(Names(ps))
        coupling_participant_names == Range(t.coupling.participants)
        Missing(list, declared, kind, who) ==
            Flatten([j \in DOMAIN list |->
                        IF list[j] \notin declared
                        THEN <<SemErr(kind, <<who, list[j]>>)>> ELSE <<>>])
        ExchangeErrors(e) ==
            (IF e.data \notin all_data_names
             THEN <<SemErr("Exchange references non-existent data", <<e.data>>)>>
             ELSE <<>>)
            \o (IF e.mesh \notin all_mesh_names
                THEN <<SemErr("Exchange references non-existent mesh",
                              <<e.mesh>>)>>
                ELSE <<>>)
            \o (IF e.from \notin config_participant_names
                THEN <<SemErr("Exchange 'from' participant not found",
                              <<e.from>>)>>
                ELSE <<>>)
            \o (IF e.to \notin config_participant_names
                THEN <<SemErr("Exchange 'to' participant not found", <<e.to>>)>>
                ELSE <<>>)
    IN (IF HasDuplicates(Names(ps))
        THEN <<SemErr("Participant names must be unique", <<>>)>> ELSE <<>>)
       \o Flatten([i \in DOMAIN ps |->
            Missing(<<ps[i].provides_mesh>>, all_mesh_names,
                    "provides non-existent mesh", ps[i].name)
            \o Missing(ps[i].receives_meshes, all_mesh_names,
                       "receives non-existent mesh", ps[i].name)])
       \o Flatten([i \in DOMAIN ps |->
            Missing(ps[i].read_data, all_data_names,
                    "reads non-existent data", ps[i].name)
            \o Missing(ps[i].write_data, all_data_names,
                       "writes non-existent data", ps[i].name)])
       \o (IF Len(ps) < 2
           THEN <<SemErr("At least two participants are required for coupling",
                         <<>>)>>
           ELSE <<>>)
       \o (IF ~(coupling_participant_names \subseteq config_participant_names)
           THEN <<SemErr("Coupling participants must be defined in the topology",
                         <<>>)>>
           ELSE <<>>)
       \o Flatten([k \in DOMAIN t.coupling.exchanges |->
                      ExchangeErrors(t.coupling.exchanges[k])])
       \o (IF t.coupling.time_window_size <= 0
           THEN <<SemErr("Time window size must be positive", <<>>)>> ELSE <<>>)
       \o (IF t.coupling.max_time <= 0
           THEN <<SemErr("Maximum simulation time must be positive", <<>>)>>
           ELSE <<>>)

\* what the call reports: nothing, or the one ValueError raised first
validate_topology_configuration(t) ==
    LET failures == validation_failures(t)
    IN IF Len(failures) = 0 THEN <<>> ELSE <<Head(failures)>>

(***************************************************************************)
(* The model's own check: TopologyConfig.validate_topology.  It raises     *)
(* ValueError at the first failing check as well.                          *)
(***************************************************************************)
\* validate_topology without the check of the data a participant reads
validate_topology_lenient(t) ==
    LET ps == t.participants
        mesh_names == Range(Names(t.meshes))
        data_names == Range(Names(t.data))
        coupling_participant_names == Range(t.coupling.participants)
        topology_participant_names == Range(Names(ps))
        Missing(list, declared, kind, who) ==
            Flatten([j \in DOMAIN list |->
                        IF list[j] \notin declared
                        THEN <<SemErr(kind, <<who, list[j]>>)>> ELSE <<>>])
        failures ==
            Flatten([i \in DOMAIN ps |->
                Missing(<<ps[i].provides_mesh>>, mesh_names,
                        "provides non-existent mesh", ps[i].name)
                \o Missing(ps[i].receives_meshes, mesh_names,
                           "receives non-existent mesh", ps[i].name)])
            \o Flatten([i \in DOMAIN ps |->
            Missing(ps[i].write_data, data_names,
                       "writes undefined data", ps[i].name)])
            \o (IF ~(coupling_participant_names
                        \subseteq topology_participant_names)
                THEN <<SemErr("Coupling participants must be a subset of topology participants",
                              <<>>)>>
                ELSE <<>>)
    IN IF Len(failures) = 0 THEN <<>> ELSE <<Head(failures)>>

\* what the call reports: nothing, or the one ValueError raised first
validate_topology(t) ==
    LET ps == t.participants
        mesh_names == Range(Names(t.meshes))
        data_names == Range(Names(t.data))
        coupling_participant_names == Range(t.coupling.participants)
        topology_participant_names == Range(Names(ps))
        Missing(list, declared, kind, who) ==
            Flatten([j \in DOMAIN list |->
                        IF list[j] \notin declared
                        THEN <<SemErr(kind, <<who, list[j]>>)>> ELSE <<>>])
        failures ==
            Flatten([i \in DOMAIN ps |->
                Missing(<<ps[i].provides_mesh>>, mesh_names,
                        "provides non-existent mesh", ps[i].name)
                \o Missing(ps[i].receives_meshes, mesh_names,
                           "receives non-existent mesh", ps[i].name)])
            \o Flatten([i \in DOMAIN ps |->
            Missing(ps[i].read_data, data_names,
                    "reads undefined data", ps[i].name)
            \o Missing(ps[i].write_data, data_names,
                       "writes undefined data", ps[i].name)])
            \o (IF ~(coupling_participant_names
                        \subseteq topology_participant_names)
                THEN <<SemErr("Coupling participants must be a subset of topology participants",
                              <<>>)>>
                ELSE <<>>)
    IN IF Len(failures) = 0 THEN <<>> ELSE <<Head(failures)>>

(***************************************************************************)
(* Document emitter: PreciceConfigGenerator.generate_precice_config.       *)
(* A tag written "data:vector" is the pair of its prefix and local name, a *)
(* tag in ElementTree's "{uri}local" form has a uri instead of a prefix.   *)
(* An attribute list keeps the insertion order.  The text of the document  *)
(* is its sequence of lines, one tag per line.                             *)
(***************************************************************************)
PreciceNamespace == "http://www.precice.org/namespace/precice-config"

Tag(prefix, local) == [prefix |-> prefix, local |-> local]

Element(tag, attrib, children) ==
    [tag |-> tag, attrib |-> attrib, children |-> children]

get_enum_value(enum_value) ==
    CASE enum_value = "DataType.SCALAR" -> "scalar"
      [] enum_value = "DataType.VECTOR" -> "vector"
      [] enum_value = "DataType.TENSOR" -> "tensor"
      [] enum_value = "MappingType.RBF" -> "rbf"
      [] enum_value = "MappingType.NEAREST_PROJECTION" -> "nearest-projection"
      [] enum_value = "MappingType.CONSISTENT" -> "consistent"
      [] enum_value = "MappingType.CONSERVATIVE" -> "conservative"
      [] enum_value = "CouplingSchemeType.SERIAL_EXPLICIT" -> "serial-explicit"
      [] enum_value = "CouplingSchemeType.SERIAL_IMPLICIT" -> "serial-implicit"
      [] enum_value = "CouplingSchemeType.PARALLEL_EXPLICIT" -> "parallel-explicit"
      [] enum_value = "CouplingSchemeType.PARALLEL_IMPLICIT" -> "parallel-implicit"
      [] OTHER -> enum_value

\* str() of an int or of a float
Str(x) == ToString(x)

\* participants providing the mesh, in declaration order
Providers(t, mesh) ==
    {i \in DOMAIN t.participants : t.participants[i].provides_mesh = mesh}

Min(X) == CHOOSE x \in X : \A y \in X : x <= y

\* next(p.name for p in participants if p.provides_mesh == recv_mesh)
\* raises StopIteration when there is none; participants[1] raises IndexError
emission_raises(t) ==
    \/ \E i \in DOMAIN t.participants :
          \E j \in DOMAIN t.participants[i].receives_meshes :
              Providers(t, t.participants[i].receives_meshes[j]) = {}
    \/ Len(t.participants) < 2

log_element ==
    Element(Tag("", "log"), <<>>,
        <<Element(Tag("", "sink"),
                  <<<<"filter", "%Severity% > debug and %Rank% = 0">>,
                    <<"format", "---[precice] %ColorizedSeverity% %Message%">>,
                    <<"enabled", "true">>>>,
                  <<>>)>>)

data_element(d) ==
    Element(Tag("data", get_enum_value(d.type)), <<<<"name", d.name>>>>, <<>>)

mesh_element(m) ==
    Element(Tag("", "mesh"),
            <<<<"name", m.name>>, <<"dimensions", Str(m.dimensions)>>>>,
            [k \in DOMAIN m.data |->
                Element(Tag("", "use-data"), <<<<"name", m.data[k]>>>>, <<>>)])

participant_element(t, p) ==
    Element(Tag("", "participant"), <<<<"name", p.name>>>>,
        <<Element(Tag("", "provide-mesh"), <<<<"name", p.provides_mesh>>>>, <<>>)>>
        \o [k \in DOMAIN p.receives_meshes |->
              Element(Tag("", "receive-mesh"),
                      <<<<"name", p.receives_meshes[k]>>,
                        <<"_from",
                          t.participants[Min(Providers(t, p.receives_meshes[k]))].name>>>>,
                      <<>>)]
        \o [k \in DOMAIN p.read_data |->
              Element(Tag("", "read-data"),
                      <<<<"name", p.read_data[k]>>, <<"mesh", p.provides_mesh>>>>,
                      <<>>)]
        \o [k \in DOMAIN p.write_data |->
              Element(Tag("", "write-data"),
                      <<<<"name", p.write_data[k]>>, <<"mesh", p.provides_mesh>>>>,
                      <<>>)])

\* the communication element with the two roles exchanged
m2n_element_swapped(t) ==
    Element(Tag("m2n", "sockets"),
            <<<<"acceptor", t.participants[2].name>>,
              <<"connector", t.participants[1].name>>,
              <<"exchange_directory", "..">>>>,
            <<>>)

m2n_element(t) ==
    Element(Tag("m2n", "sockets"),
            <<<<"acceptor", t.participants[1].name>>,
              <<"connector", t.participants[2].name>>,
              <<"exchange_directory", "..">>>>,
            <<>>)

exchange_element(e) ==
    Element(Tag("", "exchange"),
            <<<<"data", Get(e, "data", "")>>, <<"mesh", Get(e, "mesh", "")>>,
              <<"_from", Get(e, "from", "")>>, <<"to", Get(e, "to", "")>>>>,
            <<>>)

coupling_element(t) ==
    Element(Tag("coupling-scheme", get_enum_value(t.coupling.type)), <<>>,
        <<Element(Tag("", "time-window-size"),
                  <<<<"value", Str(t.coupling.time_window_size)>>>>, <<>>),
          Element(Tag("", "max-time"),
                  <<<<"value", Str(t.coupling.max_time)>>>>, <<>>),
          Element(Tag("", "participants"),
                  <<<<"first", t.participants[1].name>>,
                    <<"second", t.participants[2].name>>>>,
                  <<>>)>>
        \o [k \in DOMAIN t.coupling.exchanges |->
              exchange_element(t.coupling.exchanges[k])])

\* the tree with the meshes put before the data declarations
build_root_reordered(t) ==
    Element(Tag("", "precice-configuration"), <<<<"xmlns", PreciceNamespace>>>>,
        <<log_element>>
        \o [i \in DOMAIN t.meshes |-> mesh_element(t.meshes[i])]
        \o [i \in DOMAIN t.data |-> data_element(t.data[i])]
        \o [i \in DOMAIN t.participants |->
              participant_element(t, t.participants[i])]
        \o (IF Len(t.participants) > 1 THEN <<m2n_element(t)>> ELSE <<>>)
        \o <<coupling_element(t)>>)

\* the tree built by lines 302-365
build_root(t) ==
    Element(Tag("", "precice-configuration"), <<<<"xmlns", PreciceNamespace>>>>,
        <<log_element>>
        \o [i \in DOMAIN t.data |-> data_element(t.data[i])]
        \o [i \in DOMAIN t.meshes |-> mesh_element(t.meshes[i])]
        \o [i \in DOMAIN t.participants |->
              participant_element(t, t.participants[i])]
        \o (IF Len(t.participants) > 1 THEN <<m2n_element(t)>> ELSE <<>>)
        \o <<coupling_element(t)>>)

\* ET.register_namespace(prefix, uri)
register_namespace(map, prefix, uri) ==
    {kv \in map : kv[1] # uri /\ kv[2] # prefix} \cup {<<uri, prefix>>}

\* the name ET.tostring writes for a tag: a plain tag as it is, a "{uri}local"
\* tag under the prefix registered for the uri (ns0 when none is)
qname(tag, map) ==
    IF HasKey(tag, "uri")
    THEN Tag(IF \E kv \in map : kv[1] = tag.uri
             THEN (CHOOSE kv \in map : kv[1] = tag.uri)[2] ELSE "ns0",
             tag.local)
    ELSE tag

Line(kind, tag, attrib) == [kind |-> kind, tag |-> tag, attrib |-> attrib]

\* ET.tostring followed by re.sub(r'>\s*<', '>\n<', ...)
RECURSIVE tostring(_, _)
tostring(elem, map) ==
    IF Len(elem.children) = 0
    THEN <<Line("empty", qname(elem.tag, map), elem.attrib)>>
    ELSE <<Line("start", qname(elem.tag, map), elem.attrib)>>
         \o Flatten([i \in DOMAIN elem.children |->
                        tostring(elem.children[i], map)])
         \o <<Line("end", qname(elem.tag, map), <<>>)>>

xml_declaration ==
    Line("declaration", Tag("", "xml"),
         <<<<"version", "1.0">>, <<"encoding", "UTF-8">>>>)

\* the text when the file is opened for appending instead of writing
xml_str_appended(t, map) ==
    (IF xml_file = None THEN <<>> ELSE xml_file)
        \o <<xml_declaration>> \o tostring(build_root(t), map)

\* lines 367-374: the text written to precice-config.xml
xml_str(t, map) == <<xml_declaration>> \o tostring(build_root(t), map)

(***************************************************************************)
(* Document reader: PreciceXMLToTopologyConverter.                         *)
(* ET.parse is namespace-aware: an xmlns attribute sets the namespace of   *)
(* the unprefixed tags below it, an xmlns:p attribute binds the prefix p,  *)
(* and a tag whose prefix is bound nowhere is a ParseError.  A parsed tag  *)
(* is the pair of its namespace uri and local name.                        *)
(***************************************************************************)
TagPrefixes == {"data", "m2n", "coupling-scheme"}

QTag(uri, local) == [uri |-> uri, local |-> local]

AttrKeys(attrib) == {attrib[i][1] : i \in DOMAIN attrib}

\* Element.get(key, default)
AttrGet(attrib, key, default) ==
    IF key \in AttrKeys(attrib)
    THEN attrib[CHOOSE i \in DOMAIN attrib : attrib[i][1] = key][2]
    ELSE default

\* the namespace bindings in scope below a tag with these attributes
Scope(outer, attrib) ==
    [default |-> AttrGet(attrib, "xmlns", outer.default),
     bound |-> [p \in TagPrefixes |->
                  AttrGet(attrib, "xmlns:" \o p, outer.bound[p])]]

EmptyScope == [default |-> "", bound |-> [p \in TagPrefixes |-> ""]]

IsNamespaceAttribute(key) ==
    key = "xmlns" \/ \E p \in TagPrefixes : key = "xmlns:" \o p

\* SelectSeq without a higher-order argument
RECURSIVE PlainAttributes(_)
PlainAttributes(attrib) ==
    IF Len(attrib) = 0 THEN <<>>
    ELSE (IF IsNamespaceAttribute(Head(attrib)[1]) THEN <<>>
          ELSE <<Head(attrib)>>) \o PlainAttributes(Tail(attrib))

Unbound(tag, scope) == tag.prefix # "" /\ scope.bound[tag.prefix] = ""

Resolve(tag, scope) ==
    QTag(IF tag.prefix = "" THEN scope.default ELSE scope.bound[tag.prefix],
         tag.local)

\* the parser over the lines from position i on; stack holds the open
\* elements with the scope below each
RECURSIVE parse_lines(_, _, _)
parse_lines(lines, i, stack) ==
    IF i > Len(lines) THEN [error |-> "ParseError"]
    ELSE
    LET line == lines[i]
        outer == IF Len(stack) = 0 THEN EmptyScope ELSE stack[Len(stack)].scope
        scope == Scope(outer, line.attrib)
        Close(elem, rest) ==
            IF Len(rest) = 0 THEN [root |-> elem]
            ELSE parse_lines(lines, i + 1,
                    [rest EXCEPT ![Len(rest)].elem.children =
                                        Append(@, elem)])
    IN CASE line.kind = "start" ->
              IF Unbound(line.tag, scope) THEN [error |-> "ParseError"]
              ELSE parse_lines(lines, i + 1,
                      Append(stack,
                             [elem |-> Element(Resolve(line.tag, scope),
                                               PlainAttributes(line.attrib),
                                               <<>>),
                              scope |-> scope]))
         [] line.kind = "empty" ->
              IF Unbound(line.tag, scope) THEN [error |-> "ParseError"]
              ELSE Close(Element(Resolve(line.tag, scope),
                                 PlainAttributes(line.attrib), <<>>), stack)
         [] line.kind = "end" ->
              IF Len(stack) = 0 THEN [error |-> "ParseError"]
              ELSE Close(stack[Len(stack)].elem,
                         SubSeq(stack, 1, Len(stack) - 1))
         [] OTHER -> [error |-> "ParseError"]

\* ET.parse(xml_path).getroot(), lines 14-15
parse(lines) == parse_lines(lines, 2, <<>>)

\* self.namespaces, lines 18-20
converter_namespaces == [precice |-> PreciceNamespace]

RECURSIVE Descendants(_)
Descendants(elem) ==
    Flatten([i \in DOMAIN elem.children |->
                <<elem.children[i]>> \o Descendants(elem.children[i])])

\* elem.findall(path, namespaces) for the paths the converter uses.  A path
\* is given by the prefixes it mentions, whether it joins alternatives with
\* "|", and its local name.  A prefix missing from the prefix map is a
\* SyntaxError; a path with "|" matches nothing; ".//name" matches the
\* descendants in no namespace with that name.
Path(prefixes, union, local) ==
    [prefixes |-> prefixes, union |-> union, local |-> local]

findall(elem, path) ==
    IF ~(path.prefixes \subseteq DOMAIN converter_namespaces)
    THEN [error |-> "SyntaxError"]
    ELSE IF path.union THEN [value |-> <<>>]
    ELSE LET ds == Descendants(elem)
             Matching[k \in 0..Len(ds)] ==
                 IF k = 0 THEN <<>>
                 ELSE IF ds[k].tag = QTag("", path.local)
                      THEN Append(Matching[k - 1], ds[k])
                      ELSE Matching[k - 1]
         IN [value |-> Matching[Len(ds)]]

\* int() and float() of the text str() produced
ParseNumber(text) ==
    IF \E n \in (-1)..(MaxTime + 3) : Str(n) = text
    THEN CHOOSE n \in (-1)..(MaxTime + 3) : Str(n) = text
    ELSE None

NamesOf(found) == [k \in DOMAIN found |-> AttrGet(found[k].attrib, "name", None)]

extract_data(root) ==
    LET found == findall(root, Path({"data"}, TRUE, "vector"))
    IN IF HasKey(found, "error") THEN found
       ELSE [value |-> [k \in DOMAIN found.value |->
                          [name |-> AttrGet(found.value[k].attrib, "name", None),
                           type |-> S(found.value[k].tag.local)]]]

extract_meshes(root) ==
    LET found == findall(root, Path({}, FALSE, "mesh")).value
    IN [value |-> [k \in DOMAIN found |->
          [name |-> AttrGet(found[k].attrib, "name", None),
           dimensions |-> ParseNumber(AttrGet(found[k].attrib, "dimensions",
                                              "3")),
           data |-> NamesOf(findall(found[k],
                                    Path({}, FALSE, "use-data")).value)]]]

extract_participants(root) ==
    LET found == findall(root, Path({}, FALSE, "participant")).value
        Provides(e) == findall(e, Path({}, FALSE, "provide-mesh")).value
    IN IF \E k \in DOMAIN found : Len(Provides(found[k])) = 0
       THEN [error |-> "AttributeError"]
       ELSE [value |-> [k \in DOMAIN found |->
          [name |-> AttrGet(found[k].attrib, "name", None),
           provides_mesh |-> NamesOf(Provides(found[k]))[1],
           receives_meshes |->
               NamesOf(findall(found[k], Path({}, FALSE, "receive-mesh")).value),
           read_data |->
               NamesOf(findall(found[k], Path({}, FALSE, "read-data")).value),
           write_data |->
               NamesOf(findall(found[k], Path({}, FALSE, "write-data")).value)]]]

extract_coupling(root) ==
    LET found == findall(root, Path({"coupling-scheme"}, TRUE, "serial-explicit"))
        First(e, name) == findall(e, Path({}, FALSE, name)).value
    IN IF HasKey(found, "error") THEN found
       ELSE IF Len(found.value) = 0 THEN [error |-> "ValueError"]
       ELSE LET c == found.value[1]
                tw == First(c, "time-window-size")
                mt == First(c, "max-time")
                ps == First(c, "participants")
                xs == First(c, "exchange")
            IN [value |->
                 [type |-> S(c.tag.local),
                  time_window_size |->
                      IF Len(tw) > 0
                      THEN ParseNumber(AttrGet(tw[1].attrib, "value", None))
                      ELSE DefaultTimeWindowSize,
                  max_time |->
                      IF Len(mt) > 0
                      THEN ParseNumber(AttrGet(mt[1].attrib, "value", None))
                      ELSE DefaultMaxTime,
                  participants |->
                      IF Len(ps) > 0
                      THEN <<AttrGet(ps[1].attrib, "first", None),
                             AttrGet(ps[1].attrib, "second", None)>>
                      ELSE <<>>,
                  exchanges |-> [k \in DOMAIN xs |->
                      [data |-> AttrGet(xs[k].attrib, "data", None),
                       mesh |-> AttrGet(xs[k].attrib, "mesh", None),
                       from |-> AttrGet(xs[k].attrib, "_from", None),
                       to |-> AttrGet(xs[k].attrib, "to", None)]]]]

\* the converter when a section that cannot be extracted is left empty
generate_topology_yaml_lenient(lines) ==
    LET parsed == parse(lines)
        Lenient(r, default) == IF HasKey(r, "error") THEN default ELSE r.value
    IN IF HasKey(parsed, "error") THEN parsed
       ELSE [topology |->
               [name |-> "precice-config",
                data |-> Lenient(extract_data(parsed.root), <<>>),
                meshes |-> Lenient(extract_meshes(parsed.root), <<>>),
                participants |-> Lenient(extract_participants(parsed.root), <<>>),
                coupling |-> Lenient(extract_coupling(parsed.root), <<>>)]]

\* the converter on a document: __init__ parses, generate_topology_yaml
\* builds the dict in the order name, data, meshes, participants, coupling
generate_topology_yaml(lines) ==
    LET parsed == parse(lines)
    IN IF HasKey(parsed, "error") THEN parsed
       ELSE LET d == extract_data(parsed.root)
                m == extract_meshes(parsed.root)
                p == extract_participants(parsed.root)
                c == extract_coupling(parsed.root)
            IN IF HasKey(d, "error") THEN d
               ELSE IF HasKey(m, "error") THEN m
               ELSE IF HasKey(p, "error") THEN p
               ELSE IF HasKey(c, "error") THEN c
               ELSE [topology |->
                       [name |-> "precice-config", data |-> d.value,
                        meshes |-> m.value, participants |-> p.value,
                        coupling |-> c.value]]

(***************************************************************************)
(* Advisory validator: TopologyValidator.validate_topology, run on the     *)
(* topology file as it is on disk.  The JSON schema knows the sections     *)
(* data, meshes and participants of these documents; a coupling section is *)
(* an additional property.  jsonschema.validate raises one error, the one  *)
(* the library ranks best among all the errors of the instance.            *)
(***************************************************************************)
SchemaErr(path, index, keyword) ==
    [path |-> path, index |-> index, keyword |-> keyword]

\* every error the schema of lines 54-252 has for the instance
schema_errors(td) ==
    LET ds == Get(td, "data", <<>>)
        ms == Get(td, "meshes", <<>>)
        ps == Get(td, "participants", <<>>)
        Required(path, item, i, keys) ==
            Flatten([k \in DOMAIN keys |->
                        IF HasKey(item, keys[k]) THEN <<>>
                        ELSE <<SchemaErr(path, i, "required")>>])
        DataItem(d, i) ==
            (IF HasKey(d, "type") /\ ~HasKey(d.type, "str")
             THEN <<SchemaErr("data.type", i, "type")>> ELSE <<>>)
            \o (IF HasKey(d, "type")
                   /\ ~(HasKey(d.type, "str")
                          /\ d.type.str \in {"scalar", "vector", "tensor"})
                THEN <<SchemaErr("data.type", i, "enum")>> ELSE <<>>)
            \o Required("data", d, i, <<"name", "type">>)
        MeshItem(m, i) ==
            (IF HasKey(m, "dimensions") /\ m.dimensions \notin {1, 2, 3}
             THEN <<SchemaErr("meshes.dimensions", i, "enum")>> ELSE <<>>)
            \o Required("meshes", m, i, <<"name", "dimensions">>)
        \* provides_mesh is a string in these documents, the schema wants
        \* an array
        ParticipantItem(q, i) ==
            (IF HasKey(q, "provides_mesh")
             THEN <<SchemaErr("participants.provides_mesh", i, "type")>>
             ELSE <<>>)
            \o Required("participants", q, i, <<"name">>)
    IN Flatten([i \in DOMAIN ds |-> DataItem(ds[i], i)])
       \o (IF HasDuplicates(ds)
           THEN <<SchemaErr("data", 0, "uniqueItems")>> ELSE <<>>)
       \o Flatten([i \in DOMAIN ms |-> MeshItem(ms[i], i)])
       \o (IF HasDuplicates(ms)
           THEN <<SchemaErr("meshes", 0, "uniqueItems")>> ELSE <<>>)
       \o Flatten([i \in DOMAIN ps |-> ParticipantItem(ps[i], i)])

\* jsonschema.validate: the one error it raises, if the instance has any
raised_schema_errors(td) ==
    IF Len(schema_errors(td)) = 0 THEN {<<>>}
    ELSE {<<schema_errors(td)[i]>> : i \in DOMAIN schema_errors(td)}

Warning(kind, ids) == [kind |-> kind, ids |-> ids]

\* _validate_data_consistency
validate_data_consistency(td) ==
    (IF HasKey(td, "data")
        /\ HasDuplicates([i \in DOMAIN td.data |-> Get(td.data[i], "name", "")])
     THEN <<Warning("Duplicate data names found", <<>>)>> ELSE <<>>)
    \o (IF HasKey(td, "meshes")
           /\ HasDuplicates([i \in DOMAIN td.meshes |->
                                Get(td.meshes[i], "name", "")])
        THEN <<Warning("Duplicate mesh names found", <<>>)>> ELSE <<>>)

\* _validate_mesh_data_references; the participant keys it looks at are
\* writes_data and reads_data
validate_mesh_data_references(td) ==
    LET ds == Get(td, "data", <<>>)
        data_names == {Get(ds[i], "name", "") : i \in DOMAIN ds}
        ms == Get(td, "meshes", <<>>)
        ps == Get(td, "participants", <<>>)
        Invalid(kind, list, NameOf(_), who) ==
            Flatten([k \in DOMAIN list |->
                        IF NameOf(list[k]) \notin data_names
                        THEN <<Warning(kind, <<NameOf(list[k]), who>>)>>
                        ELSE <<>>])
        Itself(x) == x
        ItemName(x) == Get(x, "name", "")
    IN Flatten([i \in DOMAIN ms |->
                  Invalid("Invalid data reference", Get(ms[i], "data", <<>>),
                          Itself, Get(ms[i], "name", "Unknown"))])
       \o Flatten([i \in DOMAIN ps |->
                  Invalid("Invalid write data reference",
                          Get(ps[i], "writes_data", <<>>), ItemName,
                          Get(ps[i], "name", "Unknown"))
                  \o Invalid("Invalid read data reference",
                             Get(ps[i], "reads_data", <<>>), ItemName,
                             Get(ps[i], "name", "Unknown"))])

(***************************************************************************)
(* State after the interpreter has started and before a compilation runs   *)
(***************************************************************************)
\* the exception open() or yaml.safe_load raises for a file in that state
load_error(state) ==
    IF state = "missing" THEN "FileNotFoundError" ELSE "YAMLError"

\* TopologyGeneratorConfig(): overwrite_existing False, backup_existing True
BaseGeneratorConfig ==
    [overwrite_existing |-> FALSE, backup_existing |-> TRUE]

\* what lines 93-113 of __init__ raise for a loaded document: the lifting
\* errors, or else the error of the semantic validation
construction_errors(td) ==
    LET normalized == convert_enums(td)
    IN IF Len(TopologyConfigErrors(normalized)) > 0
       THEN TopologyConfigErrors(normalized)
       ELSE validate_topology_configuration(TopologyConfig(normalized))

DefaultNamespaceMap ==
    {<<"http://www.w3.org/XML/1998/namespace", "xml">>,
     <<"http://www.w3.org/1999/xhtml", "html">>}

Init ==
    /\ \E V \in VariedSections :
       \E d \in Options("data", V, DataLists, BaseData),
          m \in Options("meshes", V, MeshLists, BaseMeshes),
          p \in Options("participants", V, ParticipantLists, BaseParticipants),
          cp \in Options("coupling.participants", V,
                         CouplingParticipantOptions, BaseCouplingParticipants),
          ct \in Options("coupling.times", V,
                         CouplingTimeOptions, BaseCouplingTimes),
          cx \in Options("coupling.exchanges", V,
                         CouplingExchangeOptions, BaseCouplingExchanges),
          cty \in Options("coupling.type", V,
                          CouplingTypeOptions, BaseCouplingType),
          dty \in Options("data.type", V, DataTypeOptions, BaseDataType),
          mty \in Options("participants.mapping_type", V,
                          MappingTypeOptions, BaseMappingType),
          env \in Options("environment", V,
                          EnvironmentOptions, BaseEnvironment) :
            /\ topology_file = Document(d, m, p, cp, ct, cx, cty, dty, mty)
            /\ generator_config =
                  [overwrite_existing |-> env.overwrite_existing,
                   backup_existing |-> env.backup_existing]
            /\ existing_dir = IF env.existing THEN "in_place" ELSE "none"
            /\ file_state = env.file
    /\ raw_data = None
    /\ topology_data = None
    /\ validation_report = None
    /\ topology = None
    /\ errors = <<>>
    /\ pc = "start"
    /\ output_dir = "absent"
    /\ xml_file = None
    /\ prev_xml = None
    /\ emissions = 0
    /\ namespace_map = DefaultNamespaceMap
    /\ read_result = None
    /\ scripts = {}
    /\ cli_report = None
    /\ workers = None
    /\ disk = None
    /\ resolved = None
    /\ path_call = None
    /\ files = None

\* __init__, lines 88-96: load the file, apply the (empty) custom mappings,
\* normalize the enums.  _convert_enums assigns into the dict it is given
\* and returns that same dict, so the loaded dict and the name topology_data
\* are one object holding the converted values.
\* A file that cannot be opened or is not YAML makes line 89 or 90 raise.
LoadAndConvert ==
    /\ pc = "start"
    /\ IF file_state = "ok"
       THEN /\ raw_data' = convert_enums(topology_file)
            /\ topology_data' = raw_data'
            /\ pc' = "normalized"
            /\ UNCHANGED errors
       ELSE /\ errors' = <<SemErr(load_error(file_state), <<>>)>>
            /\ pc' = "failed"
            /\ UNCHANGED <<raw_data, topology_data>>
    /\ UNCHANGED <<topology_file, validation_report, topology,
                   output_dir, xml_file, prev_xml, emissions, namespace_map,
                   read_result, generator_config,
                   existing_dir, file_state, scripts, cli_report, workers,
                   disk, resolved,
                   path_call, files>>

\* __init__, lines 98-110: lift the normalized dict; a ValidationError is
\* re-raised as a ValueError that lists every field error
Lift ==
    /\ pc = "normalized"
    /\ LET errs == TopologyConfigErrors(topology_data)
       IN IF Len(errs) = 0
          THEN /\ topology' = TopologyConfig(topology_data)
               /\ pc' = "lifted"
               /\ UNCHANGED errors
          ELSE /\ errors' = errs
               /\ pc' = "failed"
               /\ UNCHANGED topology
    /\ UNCHANGED <<topology_file, raw_data, topology_data, validation_report,
                   output_dir, xml_file, prev_xml, emissions, namespace_map,
                   read_result, generator_config,
                   existing_dir, file_state, scripts, cli_report, workers,
                   disk, resolved,
                   path_call, files>>

\* __init__, line 113
Validate ==
    /\ pc = "lifted"
    /\ LET errs == validate_topology_configuration(topology)
       IN /\ errors' = errs
          /\ pc' = IF Len(errs) = 0 THEN "validated" ELSE "failed"
    /\ UNCHANGED <<topology_file, raw_data, topology_data, validation_report,
                   topology, output_dir, xml_file, prev_xml, emissions,
                   namespace_map, read_result, generator_config,
                   existing_dir, file_state, scripts, cli_report, workers,
                   disk, resolved,
                   path_call, files>>

\* lines 115-134 for a directory found at the output path (existing) under
\* the options of config: the ValueError of line 124, or where the
\* directory that was there ends up
output_directory(existing, config) ==
    IF existing = "in_place" /\ ~config.overwrite_existing
    THEN [raised |-> "Output directory already exists"]
    ELSE IF existing = "in_place" /\ config.backup_existing
    THEN [existing |-> "backup"]
    ELSE [existing |-> existing]

\* a caller that lifts the document and then asks the model to check
\* itself, topology.validate_topology(), instead of the generator's check
ValidateModel ==
    /\ pc = "lifted"
    /\ errors' = validate_topology(topology)
    /\ pc' = "self_checked"
    /\ UNCHANGED <<topology_file, raw_data, topology_data, validation_report,
                   topology, output_dir, xml_file, prev_xml, emissions,
                   namespace_map, read_result, generator_config,
                   existing_dir, file_state, scripts, cli_report, workers,
                   disk, resolved,
                   path_call, files>>

\* the output directory made before the topology has been validated
PrepareOutput_unvalidated ==
    /\ pc \in {"lifted", "validated"}
    /\ LET made == output_directory(existing_dir, generator_config)
       IN IF HasKey(made, "raised")
          THEN /\ errors' = <<SemErr(made.raised, <<>>)>>
               /\ pc' = "failed"
               /\ UNCHANGED <<output_dir, existing_dir>>
          ELSE /\ existing_dir' = made.existing
               /\ output_dir' = "created"
               /\ pc' = "constructed"
               /\ UNCHANGED errors
    /\ UNCHANGED <<topology_file, raw_data, topology_data, validation_report,
                   topology, xml_file, prev_xml, emissions,
                   namespace_map, read_result, generator_config,
                   file_state, scripts, cli_report, workers, disk, resolved,
                   path_call, files>>

\* the output directory made without looking at overwrite_existing
PrepareOutput_unguarded ==
    /\ pc = "validated"
    /\ existing_dir' = IF existing_dir = "in_place"
                          /\ generator_config.backup_existing
                       THEN "backup" ELSE existing_dir
    /\ output_dir' = "created"
    /\ pc' = "constructed"
    /\ UNCHANGED <<topology_file, raw_data, topology_data, validation_report,
                   topology, errors, xml_file, prev_xml, emissions,
                   namespace_map, read_result, generator_config,
                   file_state, scripts, cli_report, workers, disk, resolved,
                   path_call, files>>

\* __init__, lines 115-136: the output directory.  A directory that is
\* there already stops the construction, is moved to a backup, or is kept
\* and used (os.makedirs with exist_ok).
PrepareOutput ==
    /\ pc = "validated"
    /\ LET made == output_directory(existing_dir, generator_config)
       IN IF HasKey(made, "raised")
          THEN /\ errors' = <<SemErr(made.raised, <<>>)>>
               /\ pc' = "failed"
               /\ UNCHANGED <<output_dir, existing_dir>>
          ELSE /\ existing_dir' = made.existing
               /\ output_dir' = "created"
               /\ pc' = "constructed"
               /\ UNCHANGED errors
    /\ UNCHANGED <<topology_file, raw_data, topology_data, validation_report,
                   topology, xml_file, prev_xml, emissions,
                   namespace_map, read_result, generator_config,
                   file_state, scripts, cli_report, workers, disk, resolved,
                   path_call, files>>

\* generate() with an emission that takes the data declarations off the
\* model as it writes them
Generate_consuming ==
    /\ pc = "constructed"
    /\ emissions < MaxEmissions
    /\ IF emission_raises(topology)
       THEN /\ pc' = "emit_failed"
            /\ UNCHANGED <<xml_file, prev_xml, emissions, namespace_map,
                           scripts, topology>>
       ELSE /\ namespace_map' = register_namespace(namespace_map, "",
                                                   PreciceNamespace)
            /\ xml_file' = xml_str(topology, namespace_map')
            /\ prev_xml' = xml_file
            /\ emissions' = emissions + 1
            /\ scripts' = {"run.sh", "clean.sh", "README.md"}
            /\ topology' = [topology EXCEPT !.data = <<>>]
            /\ pc' = "generated"
    /\ UNCHANGED <<topology_file, raw_data, topology_data, validation_report,
                   errors, output_dir, read_result, generator_config,
                   existing_dir, file_state, cli_report, workers, disk,
                   resolved,
                   path_call, files>>

\* generate(): precice-config.xml, then run.sh, clean.sh and README.md; an
\* exception of generate_precice_config ends it before any file is written
Generate ==
    /\ pc = "constructed"
    /\ emissions < MaxEmissions
    /\ IF emission_raises(topology)
       THEN /\ pc' = "emit_failed"
            /\ UNCHANGED <<xml_file, prev_xml, emissions, namespace_map,
                           scripts>>
       ELSE /\ namespace_map' = register_namespace(namespace_map, "",
                                                   PreciceNamespace)
            /\ xml_file' = xml_str(topology, namespace_map')
            /\ prev_xml' = xml_file
            /\ emissions' = emissions + 1
            /\ scripts' = {"run.sh", "clean.sh", "README.md"}
            /\ pc' = "generated"
    /\ UNCHANGED <<topology_file, raw_data, topology_data, validation_report,
                   topology, errors, output_dir, read_result, generator_config,
                   existing_dir, file_state, cli_report, workers, disk,
                   resolved,
                   path_call, files>>

\* generate_precice_config; a caller may call it again on the same generator
GeneratePreciceConfig ==
    /\ pc \in {"constructed", "emitted"}
    /\ emissions < MaxEmissions
    /\ IF emission_raises(topology)
       THEN /\ pc' = "emit_failed"
            /\ UNCHANGED <<xml_file, prev_xml, emissions, namespace_map>>
       ELSE /\ namespace_map' = register_namespace(namespace_map, "",
                                                   PreciceNamespace)
            /\ xml_file' = xml_str(topology, namespace_map')
            /\ prev_xml' = xml_file
            /\ emissions' = emissions + 1
            /\ pc' = "emitted"
    /\ UNCHANGED <<topology_file, raw_data, topology_data, validation_report,
                   topology, errors, output_dir, read_result, generator_config,
                   existing_dir, file_state, scripts, cli_report, workers,
                   disk, resolved,
                   path_call, files>>

\* the document with the three tag prefixes bound on its root element, as a
\* hand-written target document in the same vocabulary would have them
WithPrefixesBound(lines) ==
    [lines EXCEPT ![2].attrib =
        @ \o <<<<"xmlns:data", PreciceNamespace \o "/data">>,
               <<"xmlns:m2n", PreciceNamespace \o "/m2n">>,
               <<"xmlns:coupling-scheme",
                 PreciceNamespace \o "/coupling-scheme">>>>]

\* the document without its coupling-scheme element
WithoutCouplingScheme(lines) ==
    LET first == CHOOSE i \in DOMAIN lines :
                    /\ lines[i].kind = "start"
                    /\ lines[i].tag.prefix = "coupling-scheme"
        last == CHOOSE i \in DOMAIN lines :
                    /\ lines[i].kind = "end"
                    /\ lines[i].tag.prefix = "coupling-scheme"
    IN SubSeq(lines, 1, first - 1) \o SubSeq(lines, last + 1, Len(lines))

\* target documents a converter may be given: the emitted precice-config.xml,
\* the same document with its prefixes bound, and each of the two without
\* the coupling-scheme element
TargetDocuments ==
    {xml_file, WithPrefixesBound(xml_file), WithoutCouplingScheme(xml_file),
     WithPrefixesBound(WithoutCouplingScheme(xml_file))}

\* the converter run on a target document
ReadBack ==
    /\ pc = "emitted"
    /\ read_result = None
    /\ \E document \in TargetDocuments :
          read_result' = [document |-> document,
                          outcome |-> generate_topology_yaml(document)]
    /\ UNCHANGED <<topology_file, raw_data, topology_data, validation_report,
                   topology, errors, pc, output_dir, xml_file, prev_xml,
                   emissions, namespace_map, generator_config,
                   existing_dir, file_state, scripts, cli_report, workers,
                   disk, resolved,
                   path_call, files>>

\* the report when loading fails, with the failure left out
input_failure_report_silent(state) ==
    [file |-> "topology.yaml", errors |-> <<>>, warnings |-> <<>>,
     recommendations |-> <<>>, best_practices |-> <<>>]

\* validate_topology, lines 339-345 and 371-377: the report when open() or
\* yaml.safe_load raises
input_failure_report(state) ==
    [file |-> "topology.yaml",
     errors |-> <<SchemaErr("", 0, load_error(state))>>,
     warnings |-> <<>>, recommendations |-> <<>>, best_practices |-> <<>>]

\* TopologyValidator.validate_topology on the topology file: a run of the
\* advisory validator instead of a compilation
ValidateTopology ==
    /\ pc = "start"
    /\ IF file_state # "ok"
       THEN validation_report' = input_failure_report(file_state)
       ELSE \E raised \in raised_schema_errors(topology_file) :
          validation_report' =
              [file |-> "topology.yaml",
               errors |-> raised,
               warnings |-> validate_data_consistency(topology_file)
                              \o validate_mesh_data_references(topology_file),
               recommendations |-> <<>>,
               best_practices |-> <<>>]
    /\ pc' = "reported"
    /\ UNCHANGED <<topology_file, raw_data, topology_data, topology, errors,
                   output_dir, xml_file, prev_xml, emissions, namespace_map,
                   read_result, generator_config,
                   existing_dir, file_state, scripts, cli_report, workers,
                   disk, resolved,
                   path_call, files>>

\* cli.validate_topology, the --validate mode: it constructs a
\* PreciceConfigGenerator for the file, with the default options and the
\* default output directory, and reports whether that raised
ValidateOnly ==
    /\ pc = "start"
    /\ LET made == output_directory(existing_dir, BaseGeneratorConfig)
       IN IF file_state # "ok" \/ construction_errors(topology_file) # <<>>
             \/ HasKey(made, "raised")
          THEN /\ cli_report' = "validation failed"
               /\ UNCHANGED <<output_dir, existing_dir>>
          ELSE /\ cli_report' = "valid"
               /\ output_dir' = "created"
               /\ existing_dir' = made.existing
    /\ pc' = "cli_validated"
    /\ UNCHANGED <<topology_file, raw_data, topology_data, validation_report,
                   topology, errors, xml_file, prev_xml, emissions,
                   namespace_map, read_result, generator_config, file_state,
                   scripts, workers, disk, resolved,
                   path_call, files>>

Next == LoadAndConvert \/ Lift \/ Validate \/ PrepareOutput
            \/ GeneratePreciceConfig \/ Generate \/ ReadBack
            \/ ValidateTopology \/ ValidateOnly \/ ValidateModel

Spec == Init /\ [][Next]_vars

(***************************************************************************)
(* Two compilations at once.  Each worker constructs a generator for its   *)
(* own topology file, with the default options and the default output     *)
(* directory, and calls generate().  The workers share the file system     *)
(* and, as threads, ElementTree's namespace table.  The test of line 121   *)
(* and the os.makedirs of line 134 are separate steps.                     *)
(***************************************************************************)
Workers == {"w1", "w2"}

TopologyDirs == {"examples/1", "examples/2"}

\* the name key of a worker's document: absent, or one of two names
NameOptions == {<<>>, [name |-> "sim"], [name |-> "other"]}

\* the type of the data declaration; "matrix" is no DataType
WorkerDataTypes == {[type |-> S(t)] : t \in {"vector", "scalar", "matrix"}}

\* the reference topology with that name key and that data type
WorkerDocument(nm, dty) ==
    LET doc == Document(BaseData, BaseMeshes, BaseParticipants,
                        BaseCouplingParticipants, BaseCouplingTimes,
                        BaseCouplingExchanges, BaseCouplingType, dty,
                        BaseMappingType)
    IN nm @@ [k \in DOMAIN doc \ {"name"} |-> doc[k]]

\* lines 116-119 with output_dir None
default_output_dir(dir, t) == <<dir, t.name \o "-simulation">>

InitConcurrent ==
    /\ workers \in [Workers ->
            {[dir |-> dir, file |-> WorkerDocument(nm, dty), pc |-> "start",
              topology |-> None, output_dir |-> <<>>, xml |-> None,
              errors |-> <<>>] :
                dir \in TopologyDirs, nm \in NameOptions,
                dty \in WorkerDataTypes}]
    /\ disk = <<>>
    /\ namespace_map = DefaultNamespaceMap
    /\ pc = "start"
    /\ topology_file = None /\ raw_data = None /\ topology_data = None
    /\ validation_report = None /\ topology = None /\ errors = <<>>
    /\ output_dir = "absent" /\ xml_file = None /\ prev_xml = None
    /\ emissions = 0 /\ read_result = None
    /\ generator_config = BaseGeneratorConfig
    /\ existing_dir = "none" /\ file_state = "ok" /\ scripts = {}
    /\ cli_report = None /\ resolved = None /\ path_call = None
    /\ files = None

\* the state of a compilation that runs alone, which no worker touches
single_vars ==
    <<topology_file, raw_data, topology_data, validation_report, topology,
      errors, pc, output_dir, xml_file, prev_xml, emissions, read_result,
      generator_config, existing_dir, file_state, scripts, cli_report,
      resolved, path_call, files>>

\* __init__, lines 88-119
WorkerValidate(w) ==
    /\ workers[w].pc = "start"
    /\ LET me == workers[w]
           errs == construction_errors(me.file)
           t == TopologyConfig(convert_enums(me.file))
       IN workers' =
            [workers EXCEPT ![w] =
                IF errs # <<>>
                THEN [me EXCEPT !.pc = "failed", !.errors = errs]
                ELSE [me EXCEPT !.pc = "validated", !.topology = t,
                                !.output_dir = default_output_dir(me.dir, t)]]
    /\ UNCHANGED <<disk, namespace_map, single_vars>>

\* __init__, lines 121-131
WorkerCheckExisting(w) ==
    /\ workers[w].pc = "validated"
    /\ LET me == workers[w]
           existing == IF me.output_dir \in DOMAIN disk THEN "in_place"
                       ELSE "none"
           made == output_directory(existing, BaseGeneratorConfig)
       IN workers' =
            [workers EXCEPT ![w] =
                IF HasKey(made, "raised")
                THEN [me EXCEPT !.pc = "failed",
                                !.errors = <<SemErr(made.raised, <<>>)>>]
                ELSE [me EXCEPT !.pc = "checked"]]
    /\ UNCHANGED <<disk, namespace_map, single_vars>>

\* __init__, line 134: os.makedirs(self.output_dir, exist_ok=True)
WorkerMakeDirs(w) ==
    /\ workers[w].pc = "checked"
    /\ disk' = IF workers[w].output_dir \in DOMAIN disk THEN disk
               ELSE disk @@ (workers[w].output_dir :> None)
    /\ workers' = [workers EXCEPT ![w].pc = "constructed"]
    /\ UNCHANGED <<namespace_map, single_vars>>

\* generate(): the document is written to precice-config.xml in output_dir
WorkerGenerate(w) ==
    /\ workers[w].pc = "constructed"
    /\ namespace_map' = register_namespace(namespace_map, "", PreciceNamespace)
    /\ LET xml == xml_str(workers[w].topology, namespace_map')
       IN /\ disk' = [disk EXCEPT ![workers[w].output_dir] = xml]
          /\ workers' = [workers EXCEPT ![w].pc = "generated", ![w].xml = xml]
    /\ UNCHANGED single_vars

NextConcurrent ==
    \E w \in Workers :
        \/ WorkerValidate(w)
        \/ WorkerCheckExisting(w)
        \/ WorkerMakeDirs(w)
        \/ WorkerGenerate(w)

SpecConcurrent == InitConcurrent /\ [][NextConcurrent]_vars

(***************************************************************************)
(* FileGenerator.resolve_path.  A path string is what strip() leaves of    *)
(* it: whether it starts with "/", and its segments between the slashes.   *)
(* A resolved path is the sequence of names from the file system root.     *)
(***************************************************************************)
\* the directory of FileGenerator.py
ProjectRoot == <<"proj", "src">>

Outside == <<"tmp">>

SegmentNames == {"a", "f", "x", "link", ".", "..", "a..b"}

\* '..' in segment
ContainsDotDot(segment) == segment \in {"..", "a..b"}

Prefixes(path) == {SubSeq(path, 1, k) : k \in 0..Len(path)}

\* the project root with a directory a holding a file f, and a link that
\* leads out of the project
InitialFiles ==
    [dirs |-> Prefixes(ProjectRoot) \cup {ProjectRoot \o <<"a">>, Outside},
     regular |-> {ProjectRoot \o <<"a", "f">>},
     links |-> (ProjectRoot \o <<"link">>) :> Outside]

PathCalls ==
    [slash : BOOLEAN,
     segments : SeqsUpTo(SegmentNames, MaxSegments),
     base_dir : {None} \cup {[path |-> b] :
                    b \in {ProjectRoot, ProjectRoot \o <<"a">>, Outside}},
     create : BOOLEAN,
     must_exist : BOOLEAN,
     file_type : {None, S("dir"), S("file")}]

\* Path.resolve(): "." dropped, ".." to the parent, links followed
RECURSIVE resolve(_, _, _)
resolve(current, segments, fs) ==
    IF Len(segments) = 0 THEN current
    ELSE LET segment == Head(segments)
             next == IF segment = "." THEN current
                     ELSE IF segment = ".."
                     THEN SubSeq(current, 1, Len(current) - 1)
                     ELSE current \o <<segment>>
             target == IF next \in DOMAIN fs.links THEN fs.links[next]
                       ELSE next
         IN resolve(target, Tail(segments), fs)

\* path.relative_to(project_root) does not raise
relative_to(path, root) ==
    Len(path) >= Len(root) /\ SubSeq(path, 1, Len(root)) = root

\* path.mkdir(parents=True, exist_ok=True): the exception it raises, or the
\* file system with the directory and its parents
mkdir(path, fs) ==
    IF path \in fs.regular THEN [raised |-> "FileExistsError"]
    ELSE IF Prefixes(path) \cap fs.regular # {}
    THEN [raised |-> "NotADirectoryError"]
    ELSE [files |-> [fs EXCEPT !.dirs = @ \cup Prefixes(path)]]

\* path.touch()
touch(path, fs) ==
    IF path \in fs.dirs THEN fs ELSE [fs EXCEPT !.regular = @ \cup {path}]

Parent(path) == SubSeq(path, 1, Len(path) - 1)

\* resolve_path(path_str, base_dir, create, must_exist, file_type) on the
\* file system fs: what it returns or raises, and the file system after it
resolve_path(call, fs) ==
    LET base == IF call.base_dir = None THEN ProjectRoot
                ELSE call.base_dir.path
        path == resolve(base, call.segments, fs)
    IN IF call.slash \/ \E i \in DOMAIN call.segments :
                            ContainsDotDot(call.segments[i])
       THEN [outcome |-> [raised |-> "ValueError"], files |-> fs]
       ELSE IF ~relative_to(path, ProjectRoot)
       THEN [outcome |-> [raised |-> "PermissionError"], files |-> fs]
       ELSE IF call.file_type = S("dir") /\ path \notin fs.dirs
       THEN IF call.create
            THEN LET made == mkdir(path, fs)
                 IN IF HasKey(made, "raised")
                    THEN [outcome |-> made, files |-> fs]
                    ELSE [outcome |-> [path |-> path], files |-> made.files]
            ELSE IF call.must_exist
            THEN [outcome |-> [raised |-> "ValueError"], files |-> fs]
            ELSE [outcome |-> [path |-> path], files |-> fs]
       ELSE IF call.file_type = S("file") /\ path \notin fs.regular
       THEN IF call.create
            THEN LET made == mkdir(Parent(path), fs)
                 IN IF HasKey(made, "raised")
                    THEN [outcome |-> made, files |-> fs]
                    ELSE [outcome |-> [path |-> path],
                          files |-> touch(path, made.files)]
            ELSE IF call.must_exist
            THEN [outcome |-> [raised |-> "ValueError"], files |-> fs]
            ELSE [outcome |-> [path |-> path], files |-> fs]
       ELSE [outcome |-> [path |-> path], files |-> fs]

InitPaths ==
    /\ path_call \in PathCalls
    /\ files = InitialFiles
    /\ resolved = None
    /\ pc = "start"
    /\ topology_file = None /\ raw_data = None /\ topology_data = None
    /\ validation_report = None /\ topology = None /\ errors = <<>>
    /\ output_dir = "absent" /\ xml_file = None /\ prev_xml = None
    /\ emissions = 0 /\ namespace_map = DefaultNamespaceMap
    /\ read_result = None /\ generator_config = BaseGeneratorConfig
    /\ existing_dir = "none" /\ file_state = "ok" /\ scripts = {}
    /\ cli_report = None /\ workers = None /\ disk = None

ResolvePath ==
    /\ pc = "start"
    /\ LET call == resolve_path(path_call, files)
       IN /\ resolved' = call.outcome
          /\ files' = call.files
    /\ pc' = "resolved"
    /\ UNCHANGED <<topology_file, raw_data, topology_data, validation_report,
                   topology, errors, output_dir, xml_file, prev_xml,
                   emissions, namespace_map, read_result, generator_config,
                   existing_dir, file_state, scripts, cli_report, workers,
                   disk, path_call>>

NextPaths == ResolvePath

SpecPaths == InitPaths /\ [][NextPaths]_vars

(***************************************************************************)
(* Properties                                                              *)
(***************************************************************************)
\* the Semantic Validator has accepted self.topology
Accepted ==
    pc \in {"validated", "constructed", "emitted", "emit_failed", "generated"}

Fact(check, who, what) == [check |-> check, who |-> who, what |-> what]

Duplicated(names) ==
    {names[i] : i \in {k \in DOMAIN names :
                          \E l \in DOMAIN names : l # k /\ names[l] = names[k]}}

\* the violations of the six checks of the specification a lifted model has
SemanticViolations(t) ==
    LET data_names == Range(Names(t.data))
        mesh_names == Range(Names(t.meshes))
        participant_names == Range(Names(t.participants))
        Dangling(check, who, list, declared) ==
            {Fact(check, who, list[j]) :
                j \in {k \in DOMAIN list : list[k] \notin declared}}
    IN {Fact("duplicate data name", "", n) : n \in Duplicated(Names(t.data))}
       \cup {Fact("duplicate mesh name", "", n) :
                n \in Duplicated(Names(t.meshes))}
       \cup {Fact("duplicate participant name", "", n) :
                n \in Duplicated(Names(t.participants))}
       \cup UNION {Dangling("mesh data", t.meshes[i].name, t.meshes[i].data,
                            data_names) : i \in DOMAIN t.meshes}
       \cup UNION {Dangling("provides_mesh", t.participants[i].name,
                            <<t.participants[i].provides_mesh>>, mesh_names)
                   \cup Dangling("receives_meshes", t.participants[i].name,
                                 t.participants[i].receives_meshes, mesh_names)
                   \cup Dangling("read_data", t.participants[i].name,
                                 t.participants[i].read_data, data_names)
                   \cup Dangling("write_data", t.participants[i].name,
                                 t.participants[i].write_data, data_names) :
                   i \in DOMAIN t.participants}
       \cup (IF Len(t.participants) < 2
             THEN {Fact("participants", "", "fewer than two")} ELSE {})
       \cup (IF Len(t.coupling.participants) # 2
             THEN {Fact("coupling.participants", "", "not two")} ELSE {})
       \cup (IF ~(Range(t.coupling.participants) \subseteq participant_names)
             THEN {Fact("coupling.participants", "", "not declared")} ELSE {})
       \cup UNION {Dangling("exchange data", Str(k),
                            <<t.coupling.exchanges[k].data>>, data_names)
                   \cup Dangling("exchange mesh", Str(k),
                                 <<t.coupling.exchanges[k].mesh>>, mesh_names)
                   \cup Dangling("exchange from", Str(k),
                                 <<t.coupling.exchanges[k].from>>,
                                 participant_names)
                   \cup Dangling("exchange to", Str(k),
                                 <<t.coupling.exchanges[k].to>>,
                                 participant_names) :
                   k \in DOMAIN t.coupling.exchanges}
       \cup (IF t.coupling.time_window_size <= 0
             THEN {Fact("time_window_size", "", "not positive")} ELSE {})
       \cup (IF t.coupling.max_time <= 0
             THEN {Fact("max_time", "", "not positive")} ELSE {})

\* the model the reader returned has the declarations of the lifted model t
SameModel(r, t) ==
    /\ Len(r.data) = Len(t.data)
    /\ \A i \in DOMAIN t.data :
          /\ r.data[i].name = t.data[i].name
          /\ r.data[i].type = S(get_enum_value(t.data[i].type))
    /\ Len(r.meshes) = Len(t.meshes)
    /\ \A i \in DOMAIN t.meshes :
          /\ r.meshes[i].name = t.meshes[i].name
          /\ r.meshes[i].dimensions = t.meshes[i].dimensions
          /\ r.meshes[i].data = t.meshes[i].data
    /\ Len(r.participants) = Len(t.participants)
    /\ \A i \in DOMAIN t.participants :
          /\ r.participants[i].name = t.participants[i].name
          /\ r.participants[i].provides_mesh = t.participants[i].provides_mesh
          /\ r.participants[i].receives_meshes = t.participants[i].receives_meshes
          /\ r.participants[i].read_data = t.participants[i].read_data
          /\ r.participants[i].write_data = t.participants[i].write_data
    /\ r.coupling.type = S(get_enum_value(t.coupling.type))
    /\ r.coupling.time_window_size = t.coupling.time_window_size
    /\ r.coupling.max_time = t.coupling.max_time
    /\ r.coupling.participants = t.coupling.participants
    /\ r.coupling.exchanges = t.coupling.exchanges

\* C1: for every accepted model M, reading back the document emitted for M
\* succeeds and yields a model with the same data declarations, meshes,
\* participants, coupling parameters and exchange list
C1_ReadBackYieldsModel ==
    (Accepted /\ read_result # None /\ read_result.document = xml_file)
        => /\ HasKey(read_result.outcome, "topology")
           /\ SameModel(read_result.outcome.topology, topology)

\* the document PreciceConfigGenerator produces from a topology dict: None
\* when lifting, validation or emission fails
Regenerated(td) ==
    LET normalized == convert_enums(td)
    IN IF Len(TopologyConfigErrors(normalized)) # 0 THEN None
       ELSE LET t == TopologyConfig(normalized)
            IN IF Len(validate_topology_configuration(t)) # 0
                  \/ emission_raises(t)
               THEN None
               ELSE xml_str(t, register_namespace(namespace_map, "",
                                                  PreciceNamespace))

\* XMLConfigComparator._normalize_xml: attributes sorted, whitespace dropped
NormalizedXml(lines) ==
    [i \in DOMAIN lines |->
        [kind |-> lines[i].kind, tag |-> lines[i].tag,
         attrib |-> Range(lines[i].attrib)]]

\* C2: converting a target document D to a topology and generating a
\* document from that topology yields a document identical to D once
\* attributes are sorted and whitespace is ignored
C2_DocumentRoundTrip ==
    read_result # None
        => /\ HasKey(read_result.outcome, "topology")
           /\ Regenerated(read_result.outcome.topology) # None
           /\ NormalizedXml(Regenerated(read_result.outcome.topology))
                = NormalizedXml(read_result.document)

ReferentiallyClosed(t) ==
    LET data_names == Range(Names(t.data))
        mesh_names == Range(Names(t.meshes))
        participant_names == Range(Names(t.participants))
    IN /\ \A i \in DOMAIN t.meshes : Range(t.meshes[i].data) \subseteq data_names
       /\ \A i \in DOMAIN t.participants :
             /\ t.participants[i].provides_mesh \in mesh_names
             /\ Range(t.participants[i].receives_meshes) \subseteq mesh_names
             /\ Range(t.participants[i].read_data) \subseteq data_names
             /\ Range(t.participants[i].write_data) \subseteq data_names
       /\ Range(t.coupling.participants) \subseteq participant_names
       /\ \A k \in DOMAIN t.coupling.exchanges :
             /\ t.coupling.exchanges[k].data \in data_names
             /\ t.coupling.exchanges[k].mesh \in mesh_names
             /\ t.coupling.exchanges[k].from \in participant_names
             /\ t.coupling.exchanges[k].to \in participant_names

\* C4: every model accepted by the Semantic Validator is referentially
\* closed
C4_AcceptedIsClosed == Accepted => ReferentiallyClosed(topology)

\* C5: the Semantic Validator run on a lifted model with N violations
\* reports exactly N errors together
C5_AllViolationsReported ==
    (pc = "failed" /\ topology # None)
        => Len(errors) = Cardinality(SemanticViolations(topology))

\* C6: a topology whose only violation is a mesh listing an undeclared data
\* name is rejected with exactly one error naming the data and the mesh, and
\* no document is emitted for it
C6_DanglingMeshDataRejected ==
    \A v \in [check : {"mesh data"}, who : MeshNames, what : DataNames] :
        (topology # None /\ SemanticViolations(topology) = {v})
            => /\ pc \in {"lifted", "failed"}
               /\ xml_file = None
               /\ pc = "failed" =>
                     /\ Len(errors) = 1
                     /\ v.who \in Range(errors[1].ids)
                     /\ v.what \in Range(errors[1].ids)

TimeFields == {"time_window_size", "max_time"}

\* the time fields the document gives a value that is not greater than 0
NonPositiveFields(document) ==
    {f \in TimeFields :
        HasKey(document.coupling, f) /\ document.coupling[f] <= 0}

\* the reported errors that say field f is not positive
PositivityErrors(f) ==
    {i \in DOMAIN errors :
        \/ errors[i].kind = "greater_than" /\ errors[i].loc = "coupling." \o f
        \/ f = "time_window_size"
              /\ errors[i].kind = "Time window size must be positive"
        \/ f = "max_time"
              /\ errors[i].kind = "Maximum simulation time must be positive"}

\* C7: a topology whose time_window_size or max_time is not greater than 0
\* is never accepted and never emitted, and the failure reports exactly one
\* positivity error per offending field
C7_NonPositiveTimeRejected ==
    (file_state = "ok" /\ NonPositiveFields(topology_file) # {})
        => /\ pc \in {"start", "normalized", "failed", "reported",
                      "cli_validated"}
           /\ xml_file = None
           /\ output_dir = "absent"
           /\ pc = "failed" =>
                 \A f \in TimeFields :
                    Cardinality(PositivityErrors(f))
                        = IF f \in NonPositiveFields(topology_file) THEN 1 ELSE 0

C7_Witness ==
    /\ pc = "failed"
    /\ NonPositiveFields(topology_file) = TimeFields
    /\ \A f \in TimeFields : Cardinality(PositivityErrors(f)) = 1

\* C8: a topology with fewer than two participants is rejected with an
\* insufficient-participants error and no document is emitted for it
C8_FewParticipantsRejected ==
    (topology # None /\ Len(topology.participants) < 2 /\ pc # "lifted")
        => /\ pc = "failed"
           /\ xml_file = None
           /\ \E i \in DOMAIN errors :
                 errors[i].kind
                    = "At least two participants are required for coupling"

\* C9: every accepted model has coupling.participants of exactly two
\* distinct names, both declared participants
C9_CouplingParticipantsPair ==
    Accepted
        => /\ Len(topology.coupling.participants) = 2
           /\ topology.coupling.participants[1]
                # topology.coupling.participants[2]
           /\ Range(topology.coupling.participants)
                \subseteq Range(Names(topology.participants))

\* C10: every accepted model has pairwise distinct names within data,
\* within meshes and within participants
C10_NamesUnique ==
    Accepted
        => /\ ~HasDuplicates(Names(topology.data))
           /\ ~HasDuplicates(Names(topology.meshes))
           /\ ~HasDuplicates(Names(topology.participants))

(***************************************************************************)
(* The emitted text, read line by line                                     *)
(***************************************************************************)
\* nesting depth of line i: the root element is at depth 0
Depth(lines, i) ==
    Cardinality({j \in 1..(i - 1) : lines[j].kind = "start"})
        - Cardinality({j \in 1..(i - 1) : lines[j].kind = "end"})

\* the elements below the root in document order, each with its depth, its
\* tag and its name attribute
Outline(lines) ==
    SelectSeq([i \in DOMAIN lines |->
                  [depth |-> Depth(lines, i),
                   kind |-> lines[i].kind,
                   tag |-> lines[i].tag,
                   name |-> AttrGet(lines[i].attrib, "name", "")]],
              LAMBDA l : l.depth >= 1 /\ l.kind \in {"start", "empty"})

\* the lines of the elements with the given prefix and local name
ElementsNamed(lines, prefixes, local) ==
    SelectSeq(lines, LAMBDA l : /\ l.kind \in {"start", "empty"}
                                /\ l.tag.prefix \in prefixes
                                /\ l.tag.local = local)

Item(depth, openkind, prefix, local, name) ==
    [depth |-> depth, kind |-> openkind, tag |-> Tag(prefix, local),
     name |-> name]

Opening(children) == IF Len(children) = 0 THEN "empty" ELSE "start"

\* the outline the specification prescribes for the model t
PrescribedOutline(t) ==
    <<Item(1, "start", "", "log", ""), Item(2, "empty", "", "sink", "")>>
    \o [i \in DOMAIN t.data |->
          Item(1, "empty", "data", get_enum_value(t.data[i].type),
               t.data[i].name)]
    \o Flatten([i \in DOMAIN t.meshes |->
          <<Item(1, Opening(t.meshes[i].data), "", "mesh", t.meshes[i].name)>>
          \o [k \in DOMAIN t.meshes[i].data |->
                Item(2, "empty", "", "use-data", t.meshes[i].data[k])]])
    \o Flatten([i \in DOMAIN t.participants |->
          LET p == t.participants[i]
          IN <<Item(1, "start", "", "participant", p.name),
               Item(2, "empty", "", "provide-mesh", p.provides_mesh)>>
             \o [k \in DOMAIN p.receives_meshes |->
                   Item(2, "empty", "", "receive-mesh", p.receives_meshes[k])]
             \o [k \in DOMAIN p.read_data |->
                   Item(2, "empty", "", "read-data", p.read_data[k])]
             \o [k \in DOMAIN p.write_data |->
                   Item(2, "empty", "", "write-data", p.write_data[k])]])
    \o (IF Len(t.participants) > 1
        THEN <<Item(1, "empty", "m2n", "sockets", "")>> ELSE <<>>)
    \o <<Item(1, "start", "coupling-scheme",
              get_enum_value(t.coupling.type), ""),
         Item(2, "empty", "", "time-window-size", ""),
         Item(2, "empty", "", "max-time", ""),
         Item(2, "empty", "", "participants", "")>>
    \o [k \in DOMAIN t.coupling.exchanges |->
          Item(2, "empty", "", "exchange", "")]

\* C11: in the emitted coupling-scheme element the participants child has
\* first = coupling.participants[0] and second = coupling.participants[1],
\* whatever the declaration order of the participants is
C11_FirstSecondFromCoupling ==
    (pc = "emitted" /\ Len(topology.coupling.participants) >= 2)
        => LET found == ElementsNamed(xml_file, {""}, "participants")
           IN /\ Len(found) = 1
              /\ AttrGet(found[1].attrib, "first", "")
                    = topology.coupling.participants[1]
              /\ AttrGet(found[1].attrib, "second", "")
                    = topology.coupling.participants[2]

\* C12: the children of the emitted document appear in the order log sink,
\* data declarations, meshes, participants, communication element, coupling
\* scheme, one element per declaration in declaration order, each mesh with
\* one use-data child per data entry and each participant with one
\* read-data / write-data child per entry
C12_SectionAndDeclarationOrder ==
    pc = "emitted" => Outline(xml_file) = PrescribedOutline(topology)

\* a document whose two data declarations and two meshes are not in
\* alphabetical order, and whose participants have children
C12_Witness ==
    /\ pc = "emitted"
    /\ Names(topology.data) = <<"T", "P">>
    /\ Names(topology.meshes) = <<"N", "M">>
    /\ Len(ElementsNamed(xml_file, {""}, "receive-mesh")) > 0
    /\ Len(ElementsNamed(xml_file, {""}, "use-data")) > 0

\* the attribute of a receive-mesh element that holds the producer
ProducerOf(attrib) == AttrGet(attrib, "from", AttrGet(attrib, "_from", ""))

\* C13: for every accepted model emission succeeds, and every receive-mesh
\* child names as its producer a declared participant whose provides_mesh is
\* that mesh
C13_ProducerResolved ==
    /\ Accepted => pc # "emit_failed"
    /\ pc = "emitted"
        => LET found == ElementsNamed(xml_file, {""}, "receive-mesh")
           IN \A k \in DOMAIN found :
                 \E i \in DOMAIN topology.participants :
                    /\ topology.participants[i].name
                          = ProducerOf(found[k].attrib)
                    /\ topology.participants[i].provides_mesh
                          = AttrGet(found[k].attrib, "name", "")

\* C14: the emitted document has exactly one m2n:sockets element when the
\* model has more than one participant and none otherwise; its acceptor is
\* the first declared participant, its connector the second, its exchange
\* directory the fixed default
C14_CommunicationElement ==
    pc = "emitted"
        => LET found == ElementsNamed(xml_file, {"m2n"}, "sockets")
           IN /\ Len(found) = (IF Len(topology.participants) > 1 THEN 1 ELSE 0)
              /\ \A k \in DOMAIN found :
                    /\ AttrGet(found[k].attrib, "acceptor", "")
                          = topology.participants[1].name
                    /\ AttrGet(found[k].attrib, "connector", "")
                          = topology.participants[2].name
                    /\ AttrGet(found[k].attrib, "exchange_directory", "")
                          = ".."

\* a document for participants declared in the order B, A
C14_Witness ==
    /\ pc = "emitted"
    /\ Names(topology.participants) = <<"B", "A">>
    /\ Len(ElementsNamed(xml_file, {"m2n"}, "sockets")) = 1

\* C15: each exchange of the model is emitted as one exchange element inside
\* the coupling-scheme element, in list order, with attributes named data,
\* mesh, from and to that hold the exchange's fields
C15_ExchangeElements ==
    pc = "emitted"
        => LET found == ElementsNamed(xml_file, {""}, "exchange")
               xs == topology.coupling.exchanges
           IN /\ Len(found) = Len(xs)
              /\ \A k \in DOMAIN found :
                    /\ AttrGet(found[k].attrib, "data", "") = xs[k].data
                    /\ AttrGet(found[k].attrib, "mesh", "") = xs[k].mesh
                    /\ "from" \in AttrKeys(found[k].attrib)
                    /\ AttrGet(found[k].attrib, "from", "") = xs[k].from
                    /\ AttrGet(found[k].attrib, "to", "") = xs[k].to

\* the canonical kinds the specification's table gives a raw value
MappingKindOf(v) ==
    IF ~HasKey(v, "int") THEN "MappingType.RBF"
    ELSE CASE v.int = 0 -> "MappingType.RBF"
           [] v.int = 1 -> "MappingType.NEAREST_PROJECTION"
           [] v.int = 2 -> "MappingType.CONSISTENT"
           [] v.int = 3 -> "MappingType.CONSERVATIVE"
           [] OTHER -> "MappingType.RBF"

CouplingKindOf(v) ==
    IF ~HasKey(v, "int") THEN "CouplingSchemeType.SERIAL_EXPLICIT"
    ELSE CASE v.int = 0 -> "CouplingSchemeType.SERIAL_EXPLICIT"
           [] v.int = 1 -> "CouplingSchemeType.SERIAL_IMPLICIT"
           [] v.int = 2 -> "CouplingSchemeType.PARALLEL_EXPLICIT"
           [] v.int = 3 -> "CouplingSchemeType.PARALLEL_IMPLICIT"
           [] OTHER -> "CouplingSchemeType.SERIAL_EXPLICIT"

DataKindOf(v) ==
    IF ~HasKey(v, "str") THEN "DataType.VECTOR"
    ELSE CASE v.str = "scalar" -> "DataType.SCALAR"
           [] v.str = "vector" -> "DataType.VECTOR"
           [] v.str = "tensor" -> "DataType.TENSOR"
           [] OTHER -> "DataType.VECTOR"

\* C16: the Normalizer never raises and follows the fixed table: codes
\* 0,1,2,3 give the four mapping kinds and the four coupling kinds in order,
\* the strings scalar, vector, tensor give the three data kinds, any other
\* mapping or coupling value gives RBF / SerialExplicit and any other data
\* value gives Vector
C16_NormalizerTable ==
    topology_data # None
        => /\ \A i \in DOMAIN topology_file.participants :
                 HasKey(topology_file.participants[i], "mapping_type")
                    => topology_data.participants[i].mapping_type
                          = E(MappingKindOf(
                                topology_file.participants[i].mapping_type))
           /\ HasKey(topology_file.coupling, "type")
                 => topology_data.coupling.type
                       = E(CouplingKindOf(topology_file.coupling.type))
           /\ \A i \in DOMAIN topology_file.data :
                 HasKey(topology_file.data[i], "type")
                    => topology_data.data[i].type
                          = E(DataKindOf(topology_file.data[i].type))

\* a participant whose mapping code 2 became Consistent
C16_Witness ==
    /\ pc = "normalized"
    /\ Len(topology_file.participants) > 0
    /\ HasKey(topology_file.participants[1], "mapping_type")
    /\ topology_file.participants[1].mapping_type = I(2)
    /\ topology_data.participants[1].mapping_type = E("MappingType.CONSISTENT")

\* C17: after the Normalizer has run, the raw document it was given still
\* holds in every field the value it had before
C17_RawDocumentUnchanged ==
    raw_data # None => raw_data = topology_file

\* C18: lifting fills an absent enumerable field: a data declaration without
\* a type gets Vector, a participant without a mapping_type gets RBF, a
\* coupling section without a type gets SerialExplicit
C18_AbsentEnumDefaults ==
    topology # None
        => /\ \A i \in DOMAIN topology.data :
                 ~HasKey(topology_file.data[i], "type")
                    => topology.data[i].type = "DataType.VECTOR"
           /\ \A i \in DOMAIN topology.participants :
                 ~HasKey(topology_file.participants[i], "mapping_type")
                    => topology.participants[i].mapping_type = "MappingType.RBF"
           /\ ~HasKey(topology_file.coupling, "type")
                 => topology.coupling.type
                       = "CouplingSchemeType.SERIAL_EXPLICIT"

\* a lifted model whose document gives none of the three fields
C18_Witness ==
    /\ pc = "lifted"
    /\ Len(topology.data) > 0
    /\ Len(topology.participants) > 0
    /\ \A i \in DOMAIN topology_file.data : ~HasKey(topology_file.data[i], "type")
    /\ \A i \in DOMAIN topology_file.participants :
          ~HasKey(topology_file.participants[i], "mapping_type")
    /\ ~HasKey(topology_file.coupling, "type")

HasCouplingScheme(lines) ==
    \E i \in DOMAIN lines : lines[i].tag.prefix = "coupling-scheme"

C20_AllStructuralErrorsReported ==
    validation_report # None
        => Len(validation_report.errors) = Len(schema_errors(topology_file))

AdvisoryWarnings(td) ==
    validate_data_consistency(td) \o validate_mesh_data_references(td)

\* C21: a document whose only issues are warning-level (the advisory
\* validator has warnings for it and no error) gets a report with an empty
\* error list and every warning listed, and is accepted for generation
C21_WarningsNeverBlock ==
    (/\ validation_report # None
     /\ file_state = "ok"
     /\ Len(schema_errors(topology_file)) = 0
     /\ Len(AdvisoryWarnings(topology_file)) > 0)
        => /\ validation_report.errors = <<>>
           /\ validation_report.warnings = AdvisoryWarnings(topology_file)
           /\ construction_errors(topology_file) = <<>>


\* C22: the output directory is created, an existing directory is moved to
\* a backup, and precice-config.xml, run.sh, clean.sh or README.md are
\* written only for a topology file that loads and whose document passes
\* normalization, lifting and the semantic validation.
C22_ValidationPrecedesEffects ==
    (\/ output_dir = "created"
     \/ existing_dir = "backup"
     \/ xml_file # None
     \/ scripts # {})
        => /\ file_state = "ok"
           /\ construction_errors(topology_file) = <<>>

C22_Witness ==
    /\ pc = "generated"
    /\ output_dir = "created"
    /\ existing_dir = "backup"
    /\ xml_file # None
    /\ scripts = {"run.sh", "clean.sh", "README.md"}

\* C23: once the model has been lifted no step changes it: the semantic
\* validation, generate_precice_config and the whole generate sequence
\* leave every field of the model as lifting made it.
C23_ModelOnlyRead ==
    [][topology # None => topology' = topology]_vars

C23_Witness ==
    /\ pc = "generated"
    /\ topology = TopologyConfig(convert_enums(topology_file))
    /\ Len(topology.data) > 0
    /\ xml_file # None


\* the document declares a writer that provides a mesh and only writes, and
\* a reader without a mesh of its own that receives that mesh and only
\* reads; every name it mentions is declared, declared once, and the
\* coupling section pairs the two participants over positive times
WriterReaderTopology(td) ==
    LET ds == Get(td, "data", <<>>)
        ms == Get(td, "meshes", <<>>)
        ps == Get(td, "participants", <<>>)
        c == Get(td, "coupling", <<>>)
        data_names == {ds[i].name : i \in DOMAIN ds}
        mesh_names == {ms[i].name : i \in DOMAIN ms}
    IN /\ Len(ps) = 2
       /\ Cardinality(data_names) = Len(ds)
       /\ Cardinality(mesh_names) = Len(ms)
       /\ \A i \in DOMAIN ms : Range(ms[i].data) \subseteq data_names
       /\ DOMAIN ps[1] = {"name", "provides_mesh", "write_data"}
       /\ DOMAIN ps[2] = {"name", "receives_meshes", "read_data"}
       /\ ps[1].name # ps[2].name
       /\ ps[1].provides_mesh \in mesh_names
       /\ ps[2].receives_meshes = <<ps[1].provides_mesh>>
       /\ Len(ps[1].write_data) > 0
       /\ Range(ps[1].write_data) \subseteq data_names
       /\ Range(ps[2].read_data) = Range(ps[1].write_data)
       /\ \A i \in DOMAIN ms :
             ms[i].name = ps[1].provides_mesh
                 => Range(ps[1].write_data) \subseteq Range(ms[i].data)
       /\ HasKey(c, "participants")
       /\ c.participants = <<ps[1].name, ps[2].name>>
       /\ Get(c, "time_window_size", 1) > 0
       /\ Get(c, "max_time", 1) > 0
       /\ \A i \in DOMAIN Get(c, "exchanges", <<>>) :
             LET x == c.exchanges[i]
             IN /\ x.data \in Range(ps[1].write_data)
                /\ x.mesh = ps[1].provides_mesh
                /\ x.from = ps[1].name
                /\ x.to = ps[2].name

\* C25: a valid topology of a writer that provides a mesh and only writes
\* and a reader that only receives that mesh and only reads, with no mesh
\* of its own, passes lifting and the semantic validation without an
\* error.
C25_WriterReaderAccepted ==
    (/\ file_state = "ok"
     /\ WriterReaderTopology(topology_file)
     /\ pc \notin {"start", "normalized", "reported", "cli_validated"})
        => /\ topology # None
           /\ construction_errors(topology_file) = <<>>


\* C26: the validation-only mode of the command line reports the topology
\* valid exactly when its file loads and its document passes lifting and
\* the semantic validation, whether or not the output directory exists,
\* and it creates no directory, moves none and writes no file.
C26_ValidateOnlyPure ==
    pc = "cli_validated"
        => /\ cli_report = "valid"
                <=> (/\ file_state = "ok"
                     /\ construction_errors(topology_file) = <<>>)
           /\ output_dir = "absent"
           /\ existing_dir # "backup"
           /\ xml_file = None
           /\ scripts = {}


\* C27: for a topology file that is missing or is not YAML,
\* TopologyValidator.validate_topology returns a report with exactly one
\* error and with no warnings, recommendations or best practices.
C27_InputFailureReported ==
    (pc = "reported" /\ file_state # "ok")
        => /\ Len(validation_report.errors) = 1
           /\ validation_report.warnings = <<>>
           /\ validation_report.recommendations = <<>>
           /\ validation_report.best_practices = <<>>

C27_Witness ==
    /\ pc = "reported"
    /\ file_state = "missing"
    /\ validation_report.errors = <<SchemaErr("", 0, "FileNotFoundError")>>
    /\ validation_report.warnings = <<>>


\* C28: an output directory that exists already is left as it is, with the
\* construction ending in an error, when overwrite_existing is false; it
\* has been moved to a backup by the time a fresh directory is made when
\* overwrite_existing and backup_existing are both true; files are written
\* into it only with overwrite_existing true and backup_existing false.
C28_ExistingOutputProtected ==
    existing_dir # "none"
        => /\ ~generator_config.overwrite_existing
                => /\ existing_dir = "in_place"
                   /\ output_dir = "absent"
                   /\ xml_file = None /\ scripts = {}
                   /\ pc \notin {"constructed", "emitted", "emit_failed",
                                  "generated"}
           /\ (/\ generator_config.overwrite_existing
               /\ generator_config.backup_existing
               /\ output_dir = "created")
                => existing_dir = "backup"
           /\ (existing_dir = "in_place" /\ output_dir = "created")
                => /\ generator_config.overwrite_existing
                   /\ ~generator_config.backup_existing

C28_Witness ==
    /\ pc = "failed"
    /\ existing_dir = "in_place"
    /\ ~generator_config.overwrite_existing
    /\ errors = <<SemErr("Output directory already exists", <<>>)>>
    /\ output_dir = "absent"


\* the check of validate_topology that a check of the generator matches
SharedChecks ==
    [k \in {"provides non-existent mesh", "receives non-existent mesh"}
        |-> k]
    @@ ("reads non-existent data" :> "reads undefined data")
    @@ ("writes non-existent data" :> "writes undefined data")
    @@ ("Coupling participants must be defined in the topology"
            :> "Coupling participants must be a subset of topology participants")

\* C29: a lifted model that the generator's semantic check accepts is
\* accepted by the model's own validate_topology, and a model the generator
\* rejects on one of the checks the two share is rejected by
\* validate_topology on the same check, for the same participant and name;
\* a model validate_topology rejects is rejected by the generator.
C29_GeneratorRefinesModelCheck ==
    pc = "self_checked"
        => LET gen == validate_topology_configuration(topology)
           IN /\ gen = <<>> => errors = <<>>
              /\ errors # <<>> => gen # <<>>
              /\ (gen # <<>> /\ gen[1].kind \in DOMAIN SharedChecks)
                    => errors = <<SemErr(SharedChecks[gen[1].kind],
                                         gen[1].ids)>>

C29_Witness ==
    /\ pc = "self_checked"
    /\ errors = <<SemErr("reads undefined data", <<"B", "T">>)>>
    /\ validate_topology_configuration(topology)
            = <<SemErr("reads non-existent data", <<"B", "T">>)>>


\* C30: resolve_path raises ValueError for a path string that contains
\* ".." or starts with "/", PermissionError for one that resolves outside
\* the project root, and ValueError for one that must exist and does not;
\* every path it returns lies inside the project root and, when it must
\* exist, exists.
C30_PathConfined ==
    pc = "resolved"
        => LET unsafe == path_call.slash
                            \/ \E i \in DOMAIN path_call.segments :
                                  ContainsDotDot(path_call.segments[i])
               base == IF path_call.base_dir = None THEN ProjectRoot
                       ELSE path_call.base_dir.path
               target == resolve(base, path_call.segments, InitialFiles)
           IN /\ unsafe => resolved = [raised |-> "ValueError"]
              /\ (~unsafe /\ ~relative_to(target, ProjectRoot))
                    => resolved = [raised |-> "PermissionError"]
              /\ HasKey(resolved, "path")
                    => /\ relative_to(resolved.path, ProjectRoot)
                       /\ path_call.must_exist
                            => resolved.path \in files.dirs \cup files.regular
              /\ (/\ ~unsafe
                  /\ relative_to(target, ProjectRoot)
                  /\ path_call.must_exist
                  /\ ~path_call.create
                  /\ target \notin InitialFiles.dirs \cup InitialFiles.regular)
                    => resolved = [raised |-> "ValueError"]


\* what the compilation of a topology file ends with when it runs alone in
\* an empty directory
Alone(file) ==
    IF construction_errors(file) # <<>>
    THEN [pc |-> "failed", errors |-> construction_errors(file), xml |-> None]
    ELSE [pc |-> "generated", errors |-> <<>>,
          xml |-> xml_str(TopologyConfig(convert_enums(file)),
                          register_namespace(DefaultNamespaceMap, "",
                                             PreciceNamespace))]

Ended(w) == workers[w].pc \in {"failed", "generated"}

\* C24: under every interleaving of two compilations each one ends as it
\* does alone, failed with the same errors or generated with the same
\* document, and when both have ended the document each one emitted is
\* the content of precice-config.xml in its output directory.
C24_NoInterference ==
    /\ \A w \in Workers :
          Ended(w) => [pc |-> workers[w].pc, errors |-> workers[w].errors,
                       xml |-> workers[w].xml] = Alone(workers[w].file)
    /\ (\A w \in Workers : Ended(w))
          => \A w \in Workers :
                workers[w].pc = "generated"
                    => disk[workers[w].output_dir] = workers[w].xml

====
